---- MODULE Spec2Model ----
(***************************************************************************)
(* The CAD command-sequence codec: the decoder (decode_json.py), the       *)
(* encoder (compress_json.py) and the grammar validator                    *)
(* (10_assessment_B_C.py).                                                 *)
(*                                                                         *)
(* A line of text is a sequence of one-character strings, so that the      *)
(* regular expressions, the comma split and the numeric coercions of the   *)
(* source are computed, not assumed.  A Python dict is a function, a list  *)
(* a sequence, a formatted name such as f"Sketch{n}" the pair              *)
(* <<"Sketch", n>>, and None a value of the right shape (NoKey, NoSig, 0). *)
(***************************************************************************)
EXTENDS Integers, Sequences, FiniteSets, TLC

VARIABLES
    scenario,               \* which family of inputs this behaviour draws from
    lines,                  \* decompress_to_json: the lines enumerated so far
    entities,               \* decompress_to_json: entities
    sequence,               \* decompress_to_json: sequence
    heap,                   \* the profile_curves list objects (current_loop aliases one)
    current_sketch_key,
    current_profile_key,
    current_loop,           \* 0 is None, else an index of heap
    point_counter,
    line_counter,
    circle_counter,
    arc_counter,
    extrude_counter,
    sequence_index,
    point_tracker,
    curve_tracker,
    last_extrude_signature,
    last_extrude_key,
    result,                 \* what decompress_to_json_with_validation returned
    assigned,               \* history: every id given to a new entity, in order
    tree,                   \* compress_cad_json: the canonical tree it is given
    text,                   \* compress_cad_json: the lines it emitted
    response_text,          \* validate_response_format: its argument, as lines
    verdict,                \* validate_response_format: what it returned
    input_json,             \* prune_json_data: the document json.load returned
    written,                \* prune_json_data: how it ended, what it wrote
    RECONSTRUCTION_MODULE_AVAILABLE,
    eval_result,            \* what evaluate_response returned for the candidate
    part_evaluations,       \* process_evaluation_file: the records of one part
    best_response,          \* process_evaluation_file: the record it keeps
    number,                 \* format_value: its argument
    rendered                \* format_value: the string it returned

cursor   == <<current_sketch_key, current_profile_key, current_loop>>
counters == <<point_counter, line_counter, circle_counter, arc_counter,
              extrude_counter, sequence_index>>
trackers == <<point_tracker, curve_tracker>>
merging  == <<last_extrude_signature, last_extrude_key>>
document == <<entities, sequence, heap, assigned>>
decoder  == <<lines, document, cursor, counters, trackers, merging, result>>
encoder  == <<tree, text>>
checker  == <<response_text, verdict>>
normalizer == <<input_json, written>>
scorer   == <<RECONSTRUCTION_MODULE_AVAILABLE, eval_result, part_evaluations,
              best_response>>
formatter == <<number, rendered>>
vars     == <<scenario, decoder, encoder, checker, normalizer, scorer, formatter>>

----------------------------------------------------------------------------
(* Characters and strings *)

Digits == {"0", "1", "2", "3", "4", "5", "6", "7", "8", "9"}

UpperSeq == <<"A", "B", "C", "D", "E", "F", "G", "H", "I", "J", "K", "L", "M",
              "N", "O", "P", "Q", "R", "S", "T", "U", "V", "W", "X", "Y", "Z">>

LowerSeq == <<"a", "b", "c", "d", "e", "f", "g", "h", "i", "j", "k", "l", "m",
              "n", "o", "p", "q", "r", "s", "t", "u", "v", "w", "x", "y", "z">>

Upper == {UpperSeq[i] : i \in 1..Len(UpperSeq)}

White == {" ", "\t", "\n"}

Min(S) == CHOOSE m \in S : \A n \in S : m <= n

Max(S) == CHOOSE m \in S : \A n \in S : n <= m

DigitVal(c) ==
    CASE c = "0" -> 0 [] c = "1" -> 1 [] c = "2" -> 2 [] c = "3" -> 3
      [] c = "4" -> 4 [] c = "5" -> 5 [] c = "6" -> 6 [] c = "7" -> 7
      [] c = "8" -> 8 [] c = "9" -> 9

DigitChar(d) == <<"0", "1", "2", "3", "4", "5", "6", "7", "8", "9">>[d + 1]

\* str.lower() of one character
LowerChar(c) ==
    IF c \in Upper
    THEN LowerSeq[CHOOSE i \in 1..Len(UpperSeq) : UpperSeq[i] = c]
    ELSE c

\* str.lower()
Lower(s) == [i \in 1..Len(s) |-> LowerChar(s[i])]

\* str.strip()
Strip(s) ==
    LET keep == {i \in 1..Len(s) : s[i] \notin White}
    IN  IF keep = {} THEN <<>> ELSE SubSeq(s, Min(keep), Max(keep))

\* str.split(sep) for a one-character separator: the pieces between
\* consecutive cuts, the two ends of s being cuts
Split(s, sep) ==
    LET cuts == {0, Len(s) + 1} \cup {i \in 1..Len(s) : s[i] = sep}
        cut[k \in 0..(Cardinality(cuts) - 1)] ==
            CHOOSE c \in cuts : Cardinality({d \in cuts : d < c}) = k
    IN  [k \in 1..(Cardinality(cuts) - 1) |-> SubSeq(s, cut[k - 1] + 1, cut[k] - 1)]

\* str.replace(c, '', 1)
RemoveFirst(s, c) ==
    LET hits == {i \in 1..Len(s) : s[i] = c}
    IN  IF hits = {}
        THEN s
        ELSE SubSeq(s, 1, Min(hits) - 1) \o SubSeq(s, Min(hits) + 1, Len(s))

\* str.isdigit(): false of the empty string
IsDigitStr(s) == s # <<>> /\ \A i \in 1..Len(s) : s[i] \in Digits

\* the value of a run of decimal digits (0 for the empty run)
DigitsToNat(s) ==
    LET value[n \in 0..Len(s)] ==
            IF n = 0 THEN 0 ELSE 10 * value[n - 1] + DigitVal(s[n])
    IN  value[Len(s)]

\* the decimal digits of a natural number, as characters
NatToDigits(n) ==
    LET len == CHOOSE k \in 1..10 : (k = 1 /\ n = 0) \/ (n \div 10^(k - 1)) \in 1..9
    IN  [i \in 1..len |-> DigitChar((n \div 10^(len - i)) % 10)]

\* a run of digits without its trailing zeros
StripZeros(s) ==
    LET keep == {i \in 1..Len(s) : s[i] # "0"}
    IN  IF keep = {} THEN <<>> ELSE SubSeq(s, 1, Max(keep))

----------------------------------------------------------------------------
(* Parameter values.  A parsed parameter is a float or a str; both are     *)
(* records of one shape so that Python's == between them is TLA+'s =.      *)
(* A float is its decimal expansion: sign, integer part, fraction digits   *)
(* without trailing zeros (-0.0 == 0.0 in Python, so zero has neg FALSE).  *)

Num(neg, ip, fr) ==
    [k |-> "float", neg |-> neg /\ (ip # 0 \/ fr # <<>>), ip |-> ip, fr |-> fr,
     s |-> <<>>]

Str(s) == [k |-> "str", neg |-> FALSE, ip |-> 0, fr |-> <<>>, s |-> s]

NaN == [k |-> "nan", neg |-> FALSE, ip |-> 0, fr |-> <<>>, s |-> <<>>]

Inf(neg) == [k |-> "inf", neg |-> neg, ip |-> 0, fr |-> <<>>, s |-> <<>>]

Zero == Num(FALSE, 0, <<>>)

One == Num(FALSE, 1, <<>>)

IsNumber(p) == p.k \in {"float", "nan", "inf"}

\* p > 0 for a float p (nan > 0 is False)
Positive(p) ==
    \/ p.k = "float" /\ ~p.neg /\ (p.ip # 0 \/ p.fr # <<>>)
    \/ p.k = "inf" /\ ~p.neg

\* a decimal literal without sign: digits with at most one point, one digit at least
IsDecimalBody(s) ==
    /\ \A i \in 1..Len(s) : s[i] \in Digits \cup {"."}
    /\ Cardinality({i \in 1..Len(s) : s[i] = "."}) <= 1
    /\ \E i \in 1..Len(s) : s[i] \in Digits

Unsigned(s) == IF s # <<>> /\ s[1] \in {"+", "-"} THEN Tail(s) ELSE s

IsNanWord(s) == Lower(Unsigned(s)) = <<"n", "a", "n">>

IsInfWord(s) ==
    Lower(Unsigned(s)) \in {<<"i", "n", "f">>, <<"i", "n", "f", "i", "n", "i", "t", "y">>}

\* float(s) does not raise ValueError (literals without exponent or underscore)
IsFloatLiteral(s) == IsDecimalBody(Unsigned(s)) \/ IsNanWord(s) \/ IsInfWord(s)

\* float(s) for a literal s
FloatOf(s) ==
    LET neg  == s # <<>> /\ s[1] = "-"
        body == Unsigned(s)
        dots == {i \in 1..Len(body) : body[i] = "."}
        ipart == IF dots = {} THEN body ELSE SubSeq(body, 1, Min(dots) - 1)
        fpart == IF dots = {} THEN <<>> ELSE SubSeq(body, Min(dots) + 1, Len(body))
    IN  IF IsNanWord(s) THEN NaN
        ELSE IF IsInfWord(s) THEN Inf(neg)
        ELSE Num(neg, DigitsToNat(ipart), StripZeros(fpart))

\* int(p): [ok, v]; ok FALSE is ValueError.  A float truncates towards zero, a
\* str is read as an optionally signed run of digits.
IntOf(p) ==
    IF p.k = "float"
    THEN [ok |-> TRUE, v |-> IF p.neg THEN 0 - p.ip ELSE p.ip]
    ELSE IF p.k = "str" /\ IsDigitStr(Unsigned(Strip(p.s)))
    THEN [ok |-> TRUE,
          v |-> IF Strip(p.s)[1] = "-" THEN 0 - DigitsToNat(Unsigned(Strip(p.s)))
                ELSE DigitsToNat(Unsigned(Strip(p.s)))]
    ELSE [ok |-> FALSE, v |-> 0]

----------------------------------------------------------------------------
(* decode_json.py: parsing one line *)

NoCommand == ""

\* re.search(r'^[ \-]*([A-Z])', line) on the stripped line: the command letter,
\* or NoCommand when there is no match
CommandOf(line) ==
    LET body == {i \in 1..Len(line) : line[i] \notin {" ", "-"}}
    IN  IF body # {} /\ line[Min(body)] \in Upper THEN line[Min(body)] ELSE NoCommand

\* p.replace('.', '', 1).replace('-', '', 1).isdigit()
LooksNumeric(p) == IsDigitStr(RemoveFirst(RemoveFirst(p, "."), "-"))

\* re.search(r'\((.*?)\)', line).group(1): from the first "(" to the first ")"
\* after it; [found |-> FALSE] is the AttributeError of a failed search
ParenContent(line) ==
    LET opens  == {i \in 1..Len(line) : line[i] = "("}
        closes == {j \in (Min(opens) + 1)..Len(line) : line[j] = ")"}
    IN  IF opens = {} \/ closes = {}
        THEN [found |-> FALSE, str |-> <<>>]
        ELSE [found |-> TRUE, str |-> SubSeq(line, Min(opens) + 1, Min(closes) - 1)]

parse_params(line) ==
    LET content == ParenContent(line)
        raw     == Split(content.str, ",")
        params  == [i \in 1..Len(raw) |-> Strip(raw[i])]
    IN  IF ~content.found
        THEN <<>>
        ELSE IF \E i \in 1..Len(params) :
                    LooksNumeric(params[i]) /\ ~IsFloatLiteral(params[i])
        THEN <<>>
        ELSE [i \in 1..Len(params) |->
                 IF LooksNumeric(params[i]) THEN FloatOf(params[i])
                 ELSE Str(params[i])]

----------------------------------------------------------------------------
(* decode_json.py: the state of one decompress_to_json call *)

NoKey == <<"None", 0>>

NoSig == [none |-> TRUE]

SketchKey(n) == <<"Sketch", n>>

ProfileKey(n) == <<"Profile", n>>

ExtrudeKey(n) == <<"Extrude", n>>

Point3D(c) == [type |-> "Point3D", x |-> c[1], y |-> c[2], z |-> c[3]]

Vector3D(x, y, z) == [type |-> "Vector3D", x |-> x, y |-> y, z |-> z, length |-> One]

Normal == Vector3D(Zero, Zero, One)

EmptyMap == <<>>

\* d[k] = v on a dict
Put(d, k, v) == (k :> v) @@ d

operation_map_rev(op) ==
    CASE op = Str(<<"N", "e", "w">>)      -> "NewBodyFeatureOperation"
      [] op = Str(<<"J", "o", "i", "n">>) -> "JoinFeatureOperation"
      [] op = Str(<<"C", "u", "t">>)      -> "CutFeatureOperation"
      [] OTHER                            -> "NewBodyFeatureOperation"

extent_type_map_rev(e) ==
    CASE e = Str(<<"O", "n", "e">>) -> "OneSideFeatureExtentType"
      [] e = Str(<<"T", "w", "o">>) -> "TwoSidesFeatureExtentType"
      [] e = Str(<<"S", "y", "m", "m", "e", "t", "r", "i", "c">>)
                                    -> "SymmetricFeatureExtentType"
      [] OTHER                      -> "OneSideFeatureExtentType"

Running == [status |-> "running", exc |-> "", line |-> 0, cause |-> ""]

\* decompress_to_json_with_validation: {"success": True, "data": the tree}
Returned == [status |-> "returned", exc |-> "", line |-> 0, cause |-> ""]

\* decompress_to_json_with_validation: {"success": False, "data": message}.
\* line is the number the message carries ("Line {line_num}: ..."), 0 when the
\* message (str(e) of a KeyError, AttributeError or int() ValueError) has none.
Failed(exc, line, cause) ==
    [status |-> "failed", exc |-> exc, line |-> line, cause |-> cause]

----------------------------------------------------------------------------
(* decode_json.py: decompress_to_json, one action per branch of its loop *)

NoTransform == [none |-> TRUE]

EmptySketch ==
    [type |-> "Sketch", points |-> EmptyMap, curves |-> EmptyMap,
     profiles |-> EmptyMap, transform |-> NoTransform]

\* enumerate(lines) counting from 0
line_num_from_zero == Len(lines)

\* the number enumerate(lines, 1) gives the line being read
line_num == Len(lines) + 1

\* the exception leaves the call: the wrapper returns the message alone
Raise(exc, line, cause) ==
    /\ result' = Failed(exc, line, cause)
    /\ UNCHANGED <<document, cursor, counters, trackers, merging>>

\* "if command != 'E'": the merge signature is forgotten
ResetMerge ==
    /\ last_extrude_signature' = NoSig
    /\ last_extrude_key' = NoKey

\* a point_tracker that is never consulted: every coordinate makes a point
InternFresh(acc, coord) ==
    [tracker |-> Put(acc.tracker, coord, <<"Point3D", acc.counter>>),
     points  |-> Put(acc.points, <<"Point3D", acc.counter>>, Point3D(coord)),
     counter |-> acc.counter + 1,
     made    |-> Append(acc.made, <<"Point3D", acc.counter>>),
     missing |-> acc.missing \/ current_sketch_key = NoKey]

\* "if coord not in point_tracker": the id of the point at coord, a fresh
\* Point3D<point_counter> on its first occurrence.  acc is the tracker, the
\* sketch's points and the counter; missing is the KeyError of
\* entities[None] when no sketch is open.
Intern(acc, coord) ==
    IF coord \in DOMAIN acc.tracker
    THEN acc
    ELSE [tracker |-> Put(acc.tracker, coord, <<"Point3D", acc.counter>>),
          points  |-> Put(acc.points, <<"Point3D", acc.counter>>, Point3D(coord)),
          counter |-> acc.counter + 1,
          made    |-> Append(acc.made, <<"Point3D", acc.counter>>),
          missing |-> acc.missing \/ current_sketch_key = NoKey]

RECURSIVE InternAll(_, _)
InternAll(acc, coords) ==
    IF coords = <<>> THEN acc
    ELSE InternAll(Intern(acc, Head(coords)), Tail(coords))

OpenPoints ==
    [tracker |-> point_tracker,
     points  |-> IF current_sketch_key = NoKey THEN EmptyMap
                 ELSE entities[current_sketch_key].points,
     counter |-> point_counter,
     made    |-> <<>>,
     missing |-> FALSE]

\* tuple(sorted(('L', str(a), str(b)))): the two ids in one canonical order
SortPair(a, b) == IF a[2] <= b[2] THEN <<a, b>> ELSE <<b, a>>

NoRadius == Str(<<>>)

line_signature(a, b) ==
    [t |-> "L", a |-> SortPair(a, b)[1], b |-> SortPair(a, b)[2], c |-> NoKey,
     r |-> NoRadius]

\* ('C', str(center_point_key), str(radius)): str() of a float or of a str
\* parameter is taken as the parameter itself
circle_signature(c, radius) ==
    [t |-> "C", a |-> NoKey, b |-> NoKey, c |-> c, r |-> radius]

arc_signature(a, b, c) == [t |-> "A", a |-> a, b |-> b, c |-> c, r |-> NoRadius]

\* AddCurve appending a sequence step for every L, C or A line, repeated
\* curves included
AddCurveWithStep(acc, sig, kind, counter, curve, entry) ==
    LET fresh == sig \notin DOMAIN curve_tracker
        key   == IF fresh THEN <<kind, counter>> ELSE curve_tracker[sig]
        sk    == current_sketch_key
    IN  IF acc.missing \/ (fresh /\ sk = NoKey)
        THEN Raise("KeyError", 0, "entities[None]")
        ELSE IF current_loop = 0
        THEN Raise("AttributeError", 0, "None.append")
        ELSE /\ point_tracker' = acc.tracker
             /\ point_counter' = acc.counter
             /\ curve_tracker' = IF fresh THEN Put(curve_tracker, sig, key)
                                 ELSE curve_tracker
             /\ entities' =
                    IF sk = NoKey THEN entities
                    ELSE [entities EXCEPT ![sk] =
                             [@ EXCEPT !.points = acc.points,
                                       !.curves = IF fresh THEN Put(@, key, curve)
                                                  ELSE @]]
             /\ sequence' = Append(sequence,
                                   [index |-> sequence_index, type |-> "Sketch",
                                    entity |-> sk, curve |-> key])
             /\ sequence_index' = sequence_index + 1
             /\ line_counter' = IF fresh /\ kind = "SketchLine"
                                THEN line_counter + 1 ELSE line_counter
             /\ circle_counter' = IF fresh /\ kind = "SketchCircle"
                                  THEN circle_counter + 1 ELSE circle_counter
             /\ arc_counter' = IF fresh /\ kind = "SketchArc"
                               THEN arc_counter + 1 ELSE arc_counter
             /\ heap' = [heap EXCEPT ![current_loop] =
                            Append(@, [entry EXCEPT !.curve = key])]
             /\ assigned' = assigned \o acc.made \o (IF fresh THEN <<key>> ELSE <<>>)
             /\ ResetMerge
             /\ UNCHANGED <<cursor, extrude_counter, result>>

\* The common body of the L, C and A branches once the points are interned:
\* the curve is created on the first occurrence of its signature (with its
\* sequence step), and its entry is appended to current_loop.
AddCurve(acc, sig, kind, counter, curve, entry) ==
    LET fresh == sig \notin DOMAIN curve_tracker
        key   == IF fresh THEN <<kind, counter>> ELSE curve_tracker[sig]
        sk    == current_sketch_key
    IN  IF acc.missing \/ (fresh /\ sk = NoKey)
        THEN Raise("KeyError", 0, "entities[None]")
        ELSE IF current_loop = 0
        THEN Raise("AttributeError", 0, "None.append")
        ELSE /\ point_tracker' = acc.tracker
             /\ point_counter' = acc.counter
             /\ curve_tracker' = IF fresh THEN Put(curve_tracker, sig, key)
                                 ELSE curve_tracker
             /\ entities' =
                    IF sk = NoKey THEN entities
                    ELSE [entities EXCEPT ![sk] =
                             [@ EXCEPT !.points = acc.points,
                                       !.curves = IF fresh THEN Put(@, key, curve)
                                                  ELSE @]]
             /\ sequence' =
                    IF fresh
                    THEN Append(sequence,
                                [index |-> sequence_index, type |-> "Sketch",
                                 entity |-> sk, curve |-> key])
                    ELSE sequence
             /\ sequence_index' = IF fresh THEN sequence_index + 1 ELSE sequence_index
             /\ line_counter' = IF fresh /\ kind = "SketchLine"
                                THEN line_counter + 1 ELSE line_counter
             /\ circle_counter' = IF fresh /\ kind = "SketchCircle"
                                  THEN circle_counter + 1 ELSE circle_counter
             /\ arc_counter' = IF fresh /\ kind = "SketchArc"
                               THEN arc_counter + 1 ELSE arc_counter
             /\ heap' = [heap EXCEPT ![current_loop] =
                            Append(@, [entry EXCEPT !.curve = key])]
             /\ assigned' = assigned \o acc.made \o (IF fresh THEN <<key>> ELSE <<>>)
             /\ ResetMerge
             /\ UNCHANGED <<cursor, extrude_counter, result>>

----------------------------------------------------------------------------
(* Input lines.  Cmd writes a command line the way compress_json.py lays it  *)
(* out: indentation and marker, the letter, " (", the parameters joined by   *)
(* ", ", and ")".                                                            *)

\* ", ".join(toks)
Join(toks) ==
    LET joined[n \in 0..Len(toks)] ==
            IF n = 0 THEN <<>>
            ELSE IF n = 1 THEN toks[1]
            ELSE joined[n - 1] \o <<",", " ">> \o toks[n]
    IN  joined[Len(toks)]

Cmd(prefix, letter, toks) == prefix \o <<letter, " ", "(">> \o Join(toks) \o <<")">>

Marker(depth) == [i \in 1..(2 * depth) |-> " "] \o <<"-", " ">>

LineS1 == Cmd(<<>>, "S", <<<<"1">>>>)

LineS2 == Cmd(<<>>, "S", <<<<"2">>>>)

LineP1 == Cmd(Marker(1), "P", <<<<"1">>>>)

LineO == Cmd(Marker(2), "O", <<<<"t", "r", "u", "e">>>>)

LineL == Cmd(Marker(3), "L", <<<<"0">>, <<"0">>, <<"1", "0">>, <<"0">>>>)

LineC == Cmd(Marker(3), "C", <<<<"0">>, <<"0">>, <<"5">>>>)

LineA == Cmd(Marker(3), "A", <<<<"1", "0">>, <<"0">>, <<"0">>, <<"1", "0">>, <<"0">>, <<"0">>, <<"1">>, <<"0">>, <<"1", "0">>, <<"0">>,
                                <<"1", ".", "5", "7">>>>)

LineT == Cmd(Marker(1), "T", <<<<"0">>, <<"0">>, <<"0">>, <<"1">>, <<"0">>, <<"0">>, <<"0">>, <<"1">>, <<"0">>, <<"0">>, <<"0">>, <<"1">>>>)

LineE11 == Cmd(<<>>, "E", <<<<"1">>, <<"1">>, <<"N", "e", "w">>, <<"O", "n", "e">>, <<"5">>, <<"0">>>>)

\* the same sketch, operation, extent and distances as LineE11, another profile
LineE21 == Cmd(<<>>, "E", <<<<"2">>, <<"1">>, <<"N", "e", "w">>, <<"O", "n", "e">>, <<"5">>, <<"0">>>>)

\* another operation than LineE11
LineE11Cut == Cmd(<<>>, "E", <<<<"1">>, <<"1">>, <<"C", "u", "t">>, <<"O", "n", "e">>, <<"5">>, <<"0">>>>)

LineBlank == <<" ", " ">>

\* no command letter at its start
LineNote == <<"-", " ", "n", "o", "t", "e">>

\* a letter outside the eight commands
LineX == Cmd(<<>>, "X", <<<<"1">>>>)

WellFormedLines ==
    {LineS1, LineS2, LineP1, LineO, LineL, LineC, LineA, LineT,
     LineE11, LineE21, LineE11Cut}

\* one line per command whose parameter count is not the command's arity
ArityLines ==
    {Cmd(<<>>, "S", <<<<"1">>, <<"2">>>>),
     <<"P", " ", "1">>,
     Cmd(Marker(2), "O", <<<<"t", "r", "u", "e">>, <<"t", "r", "u", "e">>>>),
     Cmd(Marker(3), "L", <<<<"0">>, <<"0">>, <<"1", "0">>>>),
     Cmd(Marker(3), "C", <<<<"0">>, <<"0">>>>),
     Cmd(Marker(3), "A", <<<<"0">>, <<"0">>, <<"1", "0">>, <<"0">>>>),
     Cmd(Marker(1), "T", <<<<"0">>, <<"0">>, <<"0">>>>),
     Cmd(<<>>, "E", <<<<"1">>, <<"1">>, <<"N", "e", "w">>, <<"O", "n", "e">>, <<"5">>>>)}

LinePool == WellFormedLines \cup ArityLines \cup {LineBlank, LineNote, LineX}

MaxLines == 4

\* LineL and LineA with start and end exchanged
LineLSwapped == Cmd(Marker(3), "L", <<<<"1", "0">>, <<"0">>, <<"0">>, <<"0">>>>)

LineASwapped == Cmd(Marker(3), "A", <<<<"0">>, <<"1", "0">>, <<"1", "0">>, <<"0">>, <<"0">>, <<"0">>, <<"1">>, <<"0">>, <<"1", "0">>, <<"0">>,
                                       <<"1", ".", "5", "7">>>>)

\* well-formed lines of two sketches whose curves share points
SketchPool ==
    {LineS1, LineS2, LineP1, LineO, LineL, LineLSwapped, LineC, LineA, LineASwapped, LineE11}

MaxSketchLines == 7

PoolScenarios == {"lines", "sketches"}

Pool(sc) == IF sc = "lines" THEN LinePool ELSE IF sc = "sketches" THEN SketchPool ELSE {}

Limit(sc) == IF sc = "lines" THEN MaxLines ELSE IF sc = "sketches" THEN MaxSketchLines ELSE 0

----------------------------------------------------------------------------
(* compress_json.py: the encoder.  A text is the sequence of its lines; the  *)
(* "\n".join of the source is the concatenation of the line sequences.       *)

\* the lines of "\n".join(seqs) where each element is a run of lines
Concat(seqs) ==
    LET joined[n \in 0..Len(seqs)] ==
            IF n = 0 THEN <<>> ELSE joined[n - 1] \o seqs[n]
    IN  joined[Len(seqs)]

\* f"{value:.8f}": the integer part and the eight fraction digits of a float
\* given by its decimal expansion; the ninth digit rounds (a value whose
\* expansion ends in a ninth digit 5 is a tie the binary float decides)
Fixed8(value) ==
    LET padded == value.fr \o <<"0", "0", "0", "0", "0", "0", "0", "0", "0">>
        scaled == value.ip * 100000000 + DigitsToNat(SubSeq(padded, 1, 8))
                      + (IF DigitVal(padded[9]) >= 5 THEN 1 ELSE 0)
        low    == NatToDigits(scaled % 100000000)
    IN  [ip |-> scaled \div 100000000,
         fr |-> [i \in 1..(8 - Len(low)) |-> "0"] \o low]

\* format_value without its rstrip('0') and its test of a trailing point
format_value_unstripped(value) ==
    LET padded == value.fr \o <<"0", "0", "0", "0", "0", "0", "0", "0", "0">>
        fixed  == Fixed8(value)
    IN  IF value.ip = 0 /\ DigitsToNat(SubSeq(padded, 1, 9)) = 0
        THEN <<"0">>
        ELSE (IF value.neg THEN <<"-">> ELSE <<>>)
                 \o NatToDigits(fixed.ip) \o <<".">> \o fixed.fr

\* format_value: "0" below 1e-9, else .8f without trailing zeros and without
\* a trailing point
format_value(value) ==
    LET padded == value.fr \o <<"0", "0", "0", "0", "0", "0", "0", "0", "0">>
        fixed  == Fixed8(value)
        frac   == StripZeros(fixed.fr)
    IN  IF value.ip = 0 /\ DigitsToNat(SubSeq(padded, 1, 9)) = 0
        THEN <<"0">>
        ELSE (IF value.neg THEN <<"-">> ELSE <<>>)
                 \o NatToDigits(fixed.ip)
                 \o (IF frac = <<>> THEN <<>> ELSE <<".">> \o frac)

\* re.findall(r'\d+', key)[0] of a key such as Sketch1
IdDigits(key) == NatToDigits(key[2])

\* sorted(..., key=lambda item: int(id)): the keys in the order of their numbers
SortedById(keys) ==
    [i \in 1..Cardinality(keys) |->
        CHOOSE k \in keys : Cardinality({j \in keys : j[2] < k[2]}) = i - 1]

\* the line of one entry of a loop's profile_curves (none for another type)
CurveLine(curve) ==
    CASE curve.type = "Line3D" ->
            <<Cmd(Marker(3), "L",
                  <<format_value(curve.start_point.x), format_value(curve.start_point.y),
                    format_value(curve.end_point.x), format_value(curve.end_point.y)>>)>>
      [] curve.type = "Circle3D" ->
            <<Cmd(Marker(3), "C",
                  <<format_value(curve.center_point.x), format_value(curve.center_point.y),
                    format_value(curve.radius)>>)>>
      [] curve.type = "Arc3D" ->
            <<Cmd(Marker(3), "A",
                  <<format_value(curve.start_point.x), format_value(curve.start_point.y),
                    format_value(curve.end_point.x), format_value(curve.end_point.y),
                    format_value(curve.center_point.x), format_value(curve.center_point.y),
                    format_value(curve.reference_vector.x),
                    format_value(curve.reference_vector.y),
                    format_value(curve.radius),
                    format_value(curve.start_angle), format_value(curve.end_angle)>>)>>
      [] OTHER -> <<>>

\* str(loop.get('is_outer', False)).lower()
BoolWord(b) == IF b THEN <<"t", "r", "u", "e">> ELSE <<"f", "a", "l", "s", "e">>

LoopLines(loop) ==
    <<Cmd(Marker(2), "O", <<BoolWord(loop.is_outer)>>)>>
        \o Concat([i \in 1..Len(loop.profile_curves) |-> CurveLine(loop.profile_curves[i])])

ProfileLines(profile_name, profile_data) ==
    <<Cmd(Marker(1), "P", <<IdDigits(profile_name)>>)>>
        \o Concat([i \in 1..Len(profile_data.loops) |-> LoopLines(profile_data.loops[i])])

TransformLine(transform) ==
    Cmd(Marker(1), "T",
        <<format_value(transform.origin.x), format_value(transform.origin.y),
          format_value(transform.origin.z),
          format_value(transform.x_axis.x), format_value(transform.x_axis.y),
          format_value(transform.x_axis.z),
          format_value(transform.y_axis.x), format_value(transform.y_axis.y),
          format_value(transform.y_axis.z),
          format_value(transform.z_axis.x), format_value(transform.z_axis.y),
          format_value(transform.z_axis.z)>>)

\* process_sketch at indent_level 0; every sketch given here has a transform
process_sketch(sketch_data, sketch_id) ==
    LET sorted_profiles == SortedById(DOMAIN sketch_data.profiles)
    IN  <<Cmd(<<>>, "S", <<sketch_id>>)>>
            \o Concat([i \in 1..Len(sorted_profiles) |->
                          ProfileLines(sorted_profiles[i],
                                       sketch_data.profiles[sorted_profiles[i]])])
            \o <<TransformLine(sketch_data.transform)>>

\* an operation_map with no entry: every operation is written "Unknown"
operation_map_empty(operation) == <<"U", "n", "k", "n", "o", "w", "n">>

operation_map(operation) ==
    CASE operation = "NewBodyFeatureOperation" -> <<"N", "e", "w">>
      [] operation = "JoinFeatureOperation"    -> <<"J", "o", "i", "n">>
      [] operation = "CutFeatureOperation"     -> <<"C", "u", "t">>
      [] OTHER -> <<"U", "n", "k", "n", "o", "w", "n">>

extent_type_map(extent_type) ==
    CASE extent_type = "OneSideFeatureExtentType"   -> <<"O", "n", "e">>
      [] extent_type = "TwoSidesFeatureExtentType"  -> <<"T", "w", "o">>
      [] extent_type = "SymmetricFeatureExtentType"
            -> <<"S", "y", "m", "m", "e", "t", "r", "i", "c">>
      [] OTHER -> <<"U", "n", "k", "n", "o", "w", "n">>

\* process_extrude emitting one E line for the whole feature, that of its
\* first profile
process_extrude_once(extrude_data) ==
    LET d1 == extrude_data.extent_one.distance.value
        d2 == IF "extent_two" \in DOMAIN extrude_data
              THEN extrude_data.extent_two.distance.value ELSE Zero
    IN  IF extrude_data.profiles = <<>> THEN << <<>> >>
        ELSE <<Cmd(<<>>, "E",
                   <<IdDigits(extrude_data.profiles[1].profile),
                     IdDigits(extrude_data.profiles[1].sketch),
                     operation_map(extrude_data.operation),
                     extent_type_map(extrude_data.extent_type),
                     format_value(d1), format_value(d2)>>)>>

\* process_extrude: one E line per profile; "\n".join of no line is one
\* empty line
process_extrude(extrude_data) ==
    LET d1 == extrude_data.extent_one.distance.value
        d2 == IF "extent_two" \in DOMAIN extrude_data
              THEN extrude_data.extent_two.distance.value ELSE Zero
        output_lines ==
            [i \in 1..Len(extrude_data.profiles) |->
                Cmd(<<>>, "E",
                    <<IdDigits(extrude_data.profiles[i].profile),
                      IdDigits(extrude_data.profiles[i].sketch),
                      operation_map(extrude_data.operation),
                      extent_type_map(extrude_data.extent_type),
                      format_value(d1), format_value(d2)>>)]
    IN  IF output_lines = <<>> THEN << <<>> >> ELSE output_lines

\* the loop of compress_cad_json without processed_entities: the entity's
\* lines at every step naming it
StepLinesRepeating(data, i) ==
    LET entity_key == data.sequence[i].entity
    IN  IF entity_key \notin DOMAIN data.entities
        THEN <<>>
        ELSE IF data.entities[entity_key].type = "Sketch"
        THEN process_sketch(data.entities[entity_key], IdDigits(entity_key))
        ELSE process_extrude(data.entities[entity_key])

\* what the loop of compress_cad_json emits at step i of data['sequence']:
\* the entity's lines at the first step naming it, nothing at a later step
\* (processed_entities) or for a key data['entities'] lacks
StepLines(data, i) ==
    LET entity_key == data.sequence[i].entity
    IN  IF \/ \E j \in 1..(i - 1) : data.sequence[j].entity = entity_key
           \/ entity_key \notin DOMAIN data.entities
        THEN <<>>
        ELSE IF data.entities[entity_key].type = "Sketch"
        THEN process_sketch(data.entities[entity_key], IdDigits(entity_key))
        ELSE process_extrude(data.entities[entity_key])

\* compress_cad_json on the loaded data (entities and sequence not empty)
compress_cad_json(data) ==
    Concat([i \in 1..Len(data.sequence) |-> StepLines(data, i)])

----------------------------------------------------------------------------
(* Canonical trees given to the encoder.  They carry the names the decoder   *)
(* assigns (ids numbered in order of first appearance), so two trees that    *)
(* are equivalent up to canonical naming are equal.  Every point is used by  *)
(* a curve of a loop, whose entry carries the point's coordinates; no sketch *)
(* has two curves with the same signature; entities and sequence are never   *)
(* empty.  The layouts "two profiles" and "ring" have no two points with the *)
(* same coordinates.                                                         *)

At(x, y) == <<x, y, Zero>>

PointKey(n) == <<"Point3D", n>>

Transform(z) ==
    [origin |-> Point3D(<<Zero, Zero, z>>),
     x_axis |-> Vector3D(One, Zero, Zero),
     y_axis |-> Vector3D(Zero, One, Zero),
     z_axis |-> Vector3D(Zero, Zero, One)]

CircleEntry(n, centre, radius) ==
    [type |-> "Circle3D", curve |-> <<"SketchCircle", n>>,
     center_point |-> Point3D(centre), normal |-> Normal, radius |-> radius]

\* a line and an arc closing one profile, a circle making a second profile
SketchTwoProfiles(z) ==
    [type |-> "Sketch",
     points |-> (PointKey(1) :> Point3D(At(Zero, Zero)))
                @@ (PointKey(2) :> Point3D(At(Num(FALSE, 10, <<>>), Zero)))
                @@ (PointKey(3) :> Point3D(At(Num(FALSE, 5, <<>>), Zero)))
                @@ (PointKey(4) :> Point3D(At(Num(TRUE, 1, <<"5">>), Num(FALSE, 2, <<"5">>)))),
     curves |-> (<<"SketchLine", 1>> :>
                    [type |-> "SketchLine", start_point |-> PointKey(1),
                     end_point |-> PointKey(2)])
                @@ (<<"SketchArc", 1>> :>
                    [type |-> "SketchArc", start_point |-> PointKey(2),
                     end_point |-> PointKey(1), center_point |-> PointKey(3),
                     radius |-> Num(FALSE, 5, <<>>), start_angle |-> Zero, end_angle |-> Num(FALSE, 3, <<"1", "4", "1", "5", "9", "2", "6", "5">>),
                     reference_vector |-> [x |-> One, y |-> Zero, z |-> Zero,
                                           length |-> One]])
                @@ (<<"SketchCircle", 1>> :>
                    [type |-> "SketchCircle", center_point |-> PointKey(4),
                     radius |-> Num(FALSE, 2, <<"5">>)]),
     profiles |->
        (ProfileKey(1) :>
            [loops |-> <<[is_outer |-> TRUE,
                          profile_curves |->
                             <<[type |-> "Line3D", curve |-> <<"SketchLine", 1>>,
                                start_point |-> Point3D(At(Zero, Zero)),
                                end_point |-> Point3D(At(Num(FALSE, 10, <<>>), Zero))],
                               [type |-> "Arc3D", curve |-> <<"SketchArc", 1>>,
                                start_point |-> Point3D(At(Num(FALSE, 10, <<>>), Zero)),
                                end_point |-> Point3D(At(Zero, Zero)),
                                center_point |-> Point3D(At(Num(FALSE, 5, <<>>), Zero)),
                                normal |-> Normal,
                                reference_vector |-> Vector3D(One, Zero, Zero),
                                radius |-> Num(FALSE, 5, <<>>), start_angle |-> Zero,
                                end_angle |-> Num(FALSE, 3, <<"1", "4", "1", "5", "9", "2", "6", "5">>)]>>]>>])
        @@ (ProfileKey(2) :>
            [loops |-> <<[is_outer |-> TRUE,
                          profile_curves |->
                             <<CircleEntry(1, At(Num(TRUE, 1, <<"5">>), Num(FALSE, 2, <<"5">>)),
                                           Num(FALSE, 2, <<"5">>))>>]>>]),
     transform |-> Transform(z)]

\* one profile: a circle and a smaller circle about the same centre as a hole
SketchRing(z) ==
    [type |-> "Sketch",
     points |-> (PointKey(1) :> Point3D(At(Zero, Zero))),
     curves |-> (<<"SketchCircle", 1>> :>
                    [type |-> "SketchCircle", center_point |-> PointKey(1),
                     radius |-> Num(FALSE, 5, <<>>)])
                @@ (<<"SketchCircle", 2>> :>
                    [type |-> "SketchCircle", center_point |-> PointKey(1),
                     radius |-> Num(FALSE, 2, <<"5">>)]),
     profiles |->
        (ProfileKey(1) :>
            [loops |-> <<[is_outer |-> TRUE,
                          profile_curves |-> <<CircleEntry(1, At(Zero, Zero), Num(FALSE, 5, <<>>))>>],
                         [is_outer |-> FALSE,
                          profile_curves |->
                             <<CircleEntry(2, At(Zero, Zero), Num(FALSE, 2, <<"5">>))>>]>>]),
     transform |-> Transform(z)]

\* 1e-10, which format_value renders as "0"
Tiny == Num(FALSE, 0, <<"0", "0", "0", "0", "0", "0", "0", "0", "0", "1">>)

\* one profile: a line from the origin and a circle whose centre is a third
\* point, at (cx, 0)
SketchLineCircle(z, cx) ==
    [type |-> "Sketch",
     points |-> (PointKey(1) :> Point3D(At(Zero, Zero)))
                @@ (PointKey(2) :> Point3D(At(Num(FALSE, 10, <<>>), Zero)))
                @@ (PointKey(3) :> Point3D(At(cx, Zero))),
     curves |-> (<<"SketchLine", 1>> :>
                    [type |-> "SketchLine", start_point |-> PointKey(1),
                     end_point |-> PointKey(2)])
                @@ (<<"SketchCircle", 1>> :>
                    [type |-> "SketchCircle", center_point |-> PointKey(3),
                     radius |-> Num(FALSE, 5, <<>>)]),
     profiles |->
        (ProfileKey(1) :>
            [loops |-> <<[is_outer |-> TRUE,
                          profile_curves |->
                             <<[type |-> "Line3D", curve |-> <<"SketchLine", 1>>,
                                start_point |-> Point3D(At(Zero, Zero)),
                                end_point |-> Point3D(At(Num(FALSE, 10, <<>>), Zero))],
                               CircleEntry(1, At(cx, Zero), Num(FALSE, 5, <<>>))>>]>>]),
     transform |-> Transform(z)]

\* the rectangle with corners (0, 0), (10, 0), (10, 5), (0, 5): four lines
\* closing one outer loop
SketchRectangle(z) ==
    LET corner == <<At(Zero, Zero), At(Num(FALSE, 10, <<>>), Zero),
                    At(Num(FALSE, 10, <<>>), Num(FALSE, 5, <<>>)),
                    At(Zero, Num(FALSE, 5, <<>>))>>
    IN  [type |-> "Sketch",
         points |-> [k \in {PointKey(n) : n \in 1..4} |-> Point3D(corner[k[2]])],
         curves |-> [k \in {<<"SketchLine", n>> : n \in 1..4} |->
                        [type |-> "SketchLine", start_point |-> PointKey(k[2]),
                         end_point |-> PointKey((k[2] % 4) + 1)]],
         profiles |->
            (ProfileKey(1) :>
                [loops |-> <<[is_outer |-> TRUE,
                              profile_curves |->
                                 [n \in 1..4 |->
                                     [type |-> "Line3D", curve |-> <<"SketchLine", n>>,
                                      start_point |-> Point3D(corner[n]),
                                      end_point |-> Point3D(corner[(n % 4) + 1])]]]>>]),
         transform |-> Transform(z)]

\* "shared point": the circle's centre has the coordinates of the line's
\* start; "near points": it lies 1e-10 away from it
Layouts == {"two profiles", "ring", "rectangle", "shared point", "near points"}

SketchOf(layout, z) ==
    CASE layout = "two profiles" -> SketchTwoProfiles(z)
      [] layout = "ring"         -> SketchRing(z)
      [] layout = "rectangle"    -> SketchRectangle(z)
      [] layout = "shared point" -> SketchLineCircle(z, Zero)
      [] layout = "near points"  -> SketchLineCircle(z, Tiny)

\* the curves of the sketch in the order of their sequence steps
CurveOrder(layout) ==
    CASE layout = "two profiles" ->
            <<<<"SketchLine", 1>>, <<"SketchArc", 1>>, <<"SketchCircle", 1>>>>
      [] layout = "ring" -> <<<<"SketchCircle", 1>>, <<"SketchCircle", 2>>>>
      [] layout = "rectangle" -> [n \in 1..4 |-> <<"SketchLine", n>>]
      [] OTHER -> <<<<"SketchLine", 1>>, <<"SketchCircle", 1>>>>

\* what one extrusion of the tree is: the profile it extrudes, how, how far
ExtrudeChoices(layout) ==
    [profile : DOMAIN SketchOf(layout, Zero).profiles,
     operation : {"NewBodyFeatureOperation", "CutFeatureOperation"},
     extent_type : {"OneSideFeatureExtentType", "SymmetricFeatureExtentType"}]

ExtrudeEntity(choice) ==
    IF choice.extent_type = "OneSideFeatureExtentType"
    THEN [type |-> "ExtrudeFeature",
          profiles |-> <<[profile |-> choice.profile, sketch |-> SketchKey(1)]>>,
          operation |-> choice.operation,
          extent_type |-> choice.extent_type,
          start_extent |-> [type |-> "ProfilePlaneStartDefinition"],
          extent_one |-> [distance |-> [value |-> Num(FALSE, 5, <<>>)],
                          type |-> "DistanceExtentDefinition"]]
    ELSE [type |-> "ExtrudeFeature",
          profiles |-> <<[profile |-> choice.profile, sketch |-> SketchKey(1)]>>,
          operation |-> choice.operation,
          extent_type |-> choice.extent_type,
          start_extent |-> [type |-> "ProfilePlaneStartDefinition"],
          extent_one |-> [distance |-> [value |-> Num(FALSE, 5, <<>>)],
                          type |-> "DistanceExtentDefinition"],
          extent_two |-> [distance |-> [value |-> Zero],
                          type |-> "DistanceExtentDefinition"]]

\* the tree of one sketch followed by the extrusions of choices
TreeOf(layout, z, choices) ==
    LET order == CurveOrder(layout)
    IN  [entities |->
            [k \in {SketchKey(1)} \cup {ExtrudeKey(i) : i \in 1..Len(choices)} |->
                IF k = SketchKey(1) THEN SketchOf(layout, z)
                ELSE ExtrudeEntity(choices[k[2]])],
         sequence |->
            [i \in 1..(Len(order) + Len(choices)) |->
                IF i <= Len(order)
                THEN [index |-> i - 1, type |-> "Sketch", entity |-> SketchKey(1),
                      curve |-> order[i]]
                ELSE [index |-> i - 1, type |-> "ExtrudeFeature",
                      entity |-> ExtrudeKey(i - Len(order))]]]

MaxExtrudes == 2

\* the trees of one layout: up to MaxExtrudes extrusions of its profiles
TreesOf(layout) ==
    {TreeOf(layout, z, choices) :
        z \in {Zero, Num(FALSE, 5, <<>>)},
        choices \in UNION {[1..n -> ExtrudeChoices(layout)] : n \in 1..MaxExtrudes}}

\* one circle about the origin of a sketch
SketchCircleAtOrigin(n, z) ==
    [type |-> "Sketch",
     points |-> (PointKey(n) :> Point3D(At(Zero, Zero))),
     curves |-> (<<"SketchCircle", n>> :>
                    [type |-> "SketchCircle", center_point |-> PointKey(n),
                     radius |-> Num(FALSE, 5, <<>>)]),
     profiles |->
        (ProfileKey(n) :>
            [loops |-> <<[is_outer |-> TRUE,
                          profile_curves |->
                             <<CircleEntry(n, At(Zero, Zero), Num(FALSE, 5, <<>>))>>]>>]),
     transform |-> Transform(z)]

\* two sketches, each a circle about its origin, each extruded once
TreeTwoSketches ==
    LET extrude(n, op) ==
            [ExtrudeEntity([profile |-> ProfileKey(n), operation |-> op,
                            extent_type |-> "OneSideFeatureExtentType"])
                EXCEPT !.profiles = <<[profile |-> ProfileKey(n), sketch |-> SketchKey(n)]>>]
    IN  [entities |->
            (SketchKey(1) :> SketchCircleAtOrigin(1, Zero))
            @@ (ExtrudeKey(1) :> extrude(1, "NewBodyFeatureOperation"))
            @@ (SketchKey(2) :> SketchCircleAtOrigin(2, Num(FALSE, 5, <<>>)))
            @@ (ExtrudeKey(2) :> extrude(2, "CutFeatureOperation")),
         sequence |->
            <<[index |-> 0, type |-> "Sketch", entity |-> SketchKey(1),
               curve |-> <<"SketchCircle", 1>>],
              [index |-> 1, type |-> "ExtrudeFeature", entity |-> ExtrudeKey(1)],
              [index |-> 2, type |-> "Sketch", entity |-> SketchKey(2),
               curve |-> <<"SketchCircle", 2>>],
              [index |-> 3, type |-> "ExtrudeFeature", entity |-> ExtrudeKey(2)]>>]

\* the sketch of two profiles with one two-sided extrusion of both
TreeTwoProfilesExtruded ==
    LET choice == [profile |-> ProfileKey(1), operation |-> "JoinFeatureOperation",
                   extent_type |-> "TwoSidesFeatureExtentType"]
        single == TreeOf("two profiles", Zero, <<choice>>)
    IN  [single EXCEPT
            !.entities[ExtrudeKey(1)].profiles =
                <<[profile |-> ProfileKey(1), sketch |-> SketchKey(1)],
                  [profile |-> ProfileKey(2), sketch |-> SketchKey(1)]>>,
            !.entities[ExtrudeKey(1)].extent_two.distance.value = Num(FALSE, 2, <<"5">>)]

\* two sketches, each a circle about its origin, and one extrusion of the
\* profiles of both
TreeJointExtrusion ==
    [entities |->
        (SketchKey(1) :> SketchCircleAtOrigin(1, Zero))
        @@ (SketchKey(2) :> SketchCircleAtOrigin(2, Num(FALSE, 5, <<>>)))
        @@ (ExtrudeKey(1) :>
               [ExtrudeEntity([profile |-> ProfileKey(1),
                               operation |-> "CutFeatureOperation",
                               extent_type |-> "OneSideFeatureExtentType"])
                   EXCEPT !.profiles =
                       <<[profile |-> ProfileKey(1), sketch |-> SketchKey(1)],
                         [profile |-> ProfileKey(2), sketch |-> SketchKey(2)]>>]),
     sequence |->
        <<[index |-> 0, type |-> "Sketch", entity |-> SketchKey(1),
           curve |-> <<"SketchCircle", 1>>],
          [index |-> 1, type |-> "Sketch", entity |-> SketchKey(2),
           curve |-> <<"SketchCircle", 2>>],
          [index |-> 2, type |-> "ExtrudeFeature", entity |-> ExtrudeKey(1)]>>]

TreeFamily ==
    UNION {TreesOf(layout) : layout \in Layouts}
        \cup {TreeTwoSketches, TreeTwoProfilesExtruded, TreeJointExtrusion}

\* the lines of the texts the encoder emits for these trees, those of
\* LinePool apart
TextLines ==
    {Cmd(Marker(1), "P", <<<<"2">>>>),
     Cmd(Marker(2), "O", <<<<"f", "a", "l", "s", "e">>>>),
     Cmd(Marker(3), "C", <<<<"0">>, <<"0">>, <<"2", ".", "5">>>>),
     Cmd(Marker(3), "L", <<<<"1", "0">>, <<"0">>, <<"1", "0">>, <<"5">>>>),
     Cmd(Marker(3), "L", <<<<"1", "0">>, <<"5">>, <<"0">>, <<"5">>>>),
     Cmd(Marker(3), "L", <<<<"0">>, <<"5">>, <<"0">>, <<"0">>>>),
     Cmd(Marker(3), "C", <<<<"-", "1", ".", "5">>, <<"2", ".", "5">>, <<"2", ".", "5">>>>),
     Cmd(Marker(3), "A",
         <<<<"1", "0">>, <<"0">>, <<"0">>, <<"0">>, <<"5">>, <<"0">>, <<"1">>, <<"0">>,
           <<"5">>, <<"0">>, <<"3", ".", "1", "4", "1", "5", "9", "2", "6", "5">>>>),
     Cmd(Marker(1), "T",
         <<<<"0">>, <<"0">>, <<"5">>, <<"1">>, <<"0">>, <<"0">>, <<"0">>, <<"1">>,
           <<"0">>, <<"0">>, <<"0">>, <<"1">>>>)}
    \cup {Cmd(<<>>, "E", <<profile, <<"1">>, op, ext, <<"5">>, <<"0">>>>) :
             profile \in {<<"1">>, <<"2">>},
             op \in {<<"N", "e", "w">>, <<"C", "u", "t">>},
             ext \in {<<"O", "n", "e">>,
                      <<"S", "y", "m", "m", "e", "t", "r", "i", "c">>}}
    \cup {Cmd(<<>>, "E", <<<<"2">>, <<"2">>, <<"C", "u", "t">>, <<"O", "n", "e">>, <<"5">>, <<"0">>>>)}
    \cup {Cmd(<<>>, "E", <<profile, <<"1">>, <<"J", "o", "i", "n">>, <<"T", "w", "o">>,
                           <<"5">>, <<"2", ".", "5">>>>) :
             profile \in {<<"1">>, <<"2">>}}

(* 10_assessment_B_C.py: the responses of one part, each a list of lines     *)

\* a 10 x 5 rectangle in one outer loop, extruded by 5
RectangleText ==
    <<LineS1, LineP1, LineO, LineL,
      Cmd(Marker(3), "L", <<<<"1", "0">>, <<"0">>, <<"1", "0">>, <<"5">>>>),
      Cmd(Marker(3), "L", <<<<"1", "0">>, <<"5">>, <<"0">>, <<"5">>>>),
      Cmd(Marker(3), "L", <<<<"0">>, <<"5">>, <<"0">>, <<"0">>>>),
      LineT, LineE11>>

\* the rectangle; a sketch and an extrusion among a note and a blank line; a
\* profile outside any sketch; an unknown letter; a note alone
CandidateTexts ==
    {RectangleText,
     <<LineNote, LineS1, LineBlank, LineE11>>,
     <<LineP1>>,
     <<LineX>>,
     <<LineNote>>}

\* the first index from i on whose character is outside set, Len(s) + 1 if none
After(s, i, set) == Min({j \in i..(Len(s) + 1) : j = Len(s) + 1 \/ s[j] \notin set})

\* command_pattern.match(line): ^\s*[\-]*\s*[A-Z]\s*\(
command_pattern(line) ==
    LET letter == After(line, After(line, After(line, 1, White), {"-"}), White)
        paren  == After(line, letter + 1, White)
    IN  /\ letter <= Len(line)
        /\ line[letter] \in Upper
        /\ paren <= Len(line)
        /\ line[paren] = "("

clean_response_text(raw_text) == SelectSeq(raw_text, command_pattern)

\* response_text.strip().splitlines(): the text without the white space at its
\* two ends, line by line
StripText(txt) ==
    LET solid == {i \in 1..Len(txt) : Strip(txt[i]) # <<>>}
        body  == SubSeq(txt, Min(solid), Max(solid))
        ink(l) == {i \in 1..Len(l) : l[i] \notin White}
    IN  IF solid = {} THEN <<>>
        ELSE [i \in 1..Len(body) |->
                 SubSeq(body[i],
                        IF i = 1 THEN Min(ink(body[i])) ELSE 1,
                        IF i = Len(body) THEN Max(ink(body[i])) ELSE Len(body[i]))]

\* the lines evaluate_response hands to the decoder
CandidateLines ==
    UNION {{StripText(clean_response_text(t))[i] :
               i \in 1..Len(StripText(clean_response_text(t)))} : t \in CandidateTexts}

\* Every line a behaviour can enumerate, and what the loop head computes of
\* each (line.strip(), the command letter, parse_params), tabulated once.
KnownLines ==
    LinePool \cup {LineLSwapped, LineASwapped} \cup TextLines \cup CandidateLines

Parsed ==
    [l \in KnownLines |->
        [blank   |-> Strip(l) = <<>>,
         command |-> CommandOf(Strip(l)),
         params  |-> parse_params(Strip(l))]] @@ <<>>

\* The lines the decoder may be given next: any line of the scenario's pool
\* (the input is an arbitrary list, revealed line by line), or the next line
\* of the encoder's text.
Offered ==
    IF scenario \in PoolScenarios
    THEN IF Len(lines) < Limit(scenario) THEN Pool(scenario) ELSE {}
    ELSE IF Len(lines) < Len(text) THEN {text[Len(lines) + 1]} ELSE {}

\* "for line_num, line in enumerate(lines, 1)"
Enumerate(raw) ==
    /\ result.status = "running"
    /\ raw \in Offered
    /\ lines' = Append(lines, raw)
    /\ UNCHANGED <<scenario, encoder, checker, normalizer, scorer, formatter>>

\* "if not line: continue"
SkipBlank(raw) ==
    /\ Enumerate(raw)
    /\ Parsed[raw].blank
    /\ UNCHANGED <<document, cursor, counters, trackers, merging, result>>

\* "if not match: continue"
SkipNoMatch(raw) ==
    /\ Enumerate(raw)
    /\ ~Parsed[raw].blank
    /\ Parsed[raw].command = NoCommand
    /\ UNCHANGED <<document, cursor, counters, trackers, merging, result>>

\* a command letter that no branch of the if/elif chain names
StepOther(raw) ==
    /\ Enumerate(raw)
    /\ Parsed[raw].command \in Upper \ {"S", "P", "O", "L", "C", "A", "T", "E"}
    /\ ResetMerge
    /\ UNCHANGED <<document, cursor, counters, trackers, result>>

\* an S line that leaves point_tracker and curve_tracker as they are
StepSKeepingTrackers(raw) ==
    LET params    == Parsed[raw].params
        sketch_id == IntOf(params[1])
    IN  /\ Enumerate(raw)
        /\ Parsed[raw].command = "S"
        /\ IF Len(params) # 1
           THEN Raise("ValueError", line_num, "arity")
           ELSE IF ~sketch_id.ok
           THEN Raise("ValueError", 0, "int()")
           ELSE /\ current_sketch_key' = SketchKey(sketch_id.v)
                /\ entities' = Put(entities, SketchKey(sketch_id.v), EmptySketch)
                /\ assigned' = Append(assigned, SketchKey(sketch_id.v))
                /\ ResetMerge
                /\ UNCHANGED <<sequence, heap, current_profile_key, current_loop,
                               counters, trackers, result>>

StepS(raw) ==
    LET params    == Parsed[raw].params
        sketch_id == IntOf(params[1])
    IN  /\ Enumerate(raw)
        /\ Parsed[raw].command = "S"
        /\ IF Len(params) # 1
           THEN Raise("ValueError", line_num, "arity")
           ELSE IF ~sketch_id.ok
           THEN Raise("ValueError", 0, "int()")
           ELSE /\ current_sketch_key' = SketchKey(sketch_id.v)
                /\ entities' = Put(entities, SketchKey(sketch_id.v), EmptySketch)
                /\ assigned' = Append(assigned, SketchKey(sketch_id.v))
                /\ point_tracker' = EmptyMap
                /\ curve_tracker' = EmptyMap
                /\ ResetMerge
                /\ UNCHANGED <<sequence, heap, current_profile_key, current_loop,
                               counters, result>>

StepP(raw) ==
    LET params     == Parsed[raw].params
        profile_id == IntOf(params[1])
    IN  /\ Enumerate(raw)
        /\ Parsed[raw].command = "P"
        /\ IF Len(params) # 1
           THEN Raise("ValueError", line_num, "arity")
           ELSE IF ~profile_id.ok
           THEN Raise("ValueError", 0, "int()")
           ELSE IF current_sketch_key = NoKey
           THEN Raise("KeyError", 0, "entities[None]")
           ELSE /\ current_profile_key' = ProfileKey(profile_id.v)
                /\ entities' =
                       [entities EXCEPT ![current_sketch_key].profiles =
                           Put(@, ProfileKey(profile_id.v), [loops |-> <<>>])]
                /\ assigned' = Append(assigned,
                                      current_sketch_key \o ProfileKey(profile_id.v))
                /\ ResetMerge
                /\ UNCHANGED <<sequence, heap, current_sketch_key, current_loop,
                               counters, trackers, result>>

StepO(raw) ==
    LET params   == Parsed[raw].params
        is_outer == params[1].k = "str" /\ Lower(params[1].s) = <<"t", "r", "u", "e">>
    IN  /\ Enumerate(raw)
        /\ Parsed[raw].command = "O"
        /\ IF Len(params) # 1
           THEN Raise("ValueError", line_num, "arity")
           ELSE IF current_sketch_key = NoKey
           THEN Raise("KeyError", 0, "entities[None]")
           ELSE IF current_profile_key \notin DOMAIN entities[current_sketch_key].profiles
           THEN Raise("KeyError", 0, "profiles[current_profile_key]")
           ELSE /\ heap' = Append(heap, <<>>)
                /\ entities' =
                       [entities EXCEPT
                           ![current_sketch_key].profiles[current_profile_key].loops =
                               Append(@, [is_outer |-> is_outer,
                                          profile_curves |-> Len(heap) + 1])]
                /\ current_loop' = Len(heap) + 1
                /\ ResetMerge
                /\ UNCHANGED <<sequence, assigned, current_sketch_key,
                               current_profile_key, counters, trackers, result>>

StepL(raw) ==
    LET params      == Parsed[raw].params
        start_coord == <<params[1], params[2], Zero>>
        end_coord   == <<params[3], params[4], Zero>>
        acc         == InternAll(OpenPoints, <<start_coord, end_coord>>)
        start_point_key == acc.tracker[start_coord]
        end_point_key   == acc.tracker[end_coord]
    IN  /\ Enumerate(raw)
        /\ Parsed[raw].command = "L"
        /\ IF Len(params) # 4
           THEN Raise("ValueError", line_num, "arity")
           ELSE AddCurve(acc, line_signature(start_point_key, end_point_key),
                         "SketchLine", line_counter,
                         [type |-> "SketchLine", start_point |-> start_point_key,
                          end_point |-> end_point_key],
                         [type |-> "Line3D", curve |-> NoKey,
                          start_point |-> Point3D(start_coord),
                          end_point |-> Point3D(end_coord)])

StepC(raw) ==
    LET params       == Parsed[raw].params
        center_coord == <<params[1], params[2], Zero>>
        radius       == params[3]
        acc          == InternAll(OpenPoints, <<center_coord>>)
        center_point_key == acc.tracker[center_coord]
    IN  /\ Enumerate(raw)
        /\ Parsed[raw].command = "C"
        /\ IF Len(params) # 3
           THEN Raise("ValueError", line_num, "arity")
           ELSE AddCurve(acc, circle_signature(center_point_key, radius),
                         "SketchCircle", circle_counter,
                         [type |-> "SketchCircle", center_point |-> center_point_key,
                          radius |-> radius],
                         [type |-> "Circle3D", curve |-> NoKey,
                          center_point |-> Point3D(center_coord),
                          normal |-> Normal, radius |-> radius])

StepA(raw) ==
    LET params       == Parsed[raw].params
        start_coord  == <<params[1], params[2], Zero>>
        end_coord    == <<params[3], params[4], Zero>>
        center_coord == <<params[5], params[6], Zero>>
        ref_vector   == Vector3D(params[7], params[8], Zero)
        radius       == params[9]
        start_angle  == params[10]
        end_angle    == params[11]
        acc          == InternAll(OpenPoints, <<start_coord, end_coord, center_coord>>)
        start_point_key  == acc.tracker[start_coord]
        end_point_key    == acc.tracker[end_coord]
        center_point_key == acc.tracker[center_coord]
    IN  /\ Enumerate(raw)
        /\ Parsed[raw].command = "A"
        /\ IF Len(params) # 11
           THEN Raise("ValueError", line_num, "arity")
           ELSE AddCurve(acc,
                         arc_signature(start_point_key, end_point_key, center_point_key),
                         "SketchArc", arc_counter,
                         [type |-> "SketchArc", start_point |-> start_point_key,
                          end_point |-> end_point_key,
                          center_point |-> center_point_key, radius |-> radius,
                          start_angle |-> start_angle, end_angle |-> end_angle,
                          reference_vector |-> [x |-> params[7], y |-> params[8],
                                                z |-> Zero, length |-> One]],
                         [type |-> "Arc3D", curve |-> NoKey,
                          start_point |-> Point3D(start_coord),
                          end_point |-> Point3D(end_coord),
                          center_point |-> Point3D(center_coord),
                          normal |-> Normal, reference_vector |-> ref_vector,
                          radius |-> radius, start_angle |-> start_angle,
                          end_angle |-> end_angle])

StepT(raw) ==
    LET params == Parsed[raw].params
    IN  /\ Enumerate(raw)
        /\ Parsed[raw].command = "T"
        /\ IF Len(params) # 12
           THEN Raise("ValueError", line_num, "arity")
           ELSE IF current_sketch_key = NoKey
           THEN Raise("KeyError", 0, "entities[None]")
           ELSE /\ entities' =
                       [entities EXCEPT ![current_sketch_key].transform =
                           [origin |-> Point3D(<<params[1], params[2], params[3]>>),
                            x_axis |-> Vector3D(params[4], params[5], params[6]),
                            y_axis |-> Vector3D(params[7], params[8], params[9]),
                            z_axis |-> Vector3D(params[10], params[11], params[12])]]
                /\ ResetMerge
                /\ UNCHANGED <<sequence, heap, assigned, cursor, counters, trackers,
                               result>>

\* (int(sketch_id), op, ext_type, d1, d2)
extrude_signature(sketch, op, ext_type, d1, d2) ==
    [sketch |-> sketch, op |-> op, ext_type |-> ext_type, d1 |-> d1, d2 |-> d2]

ProfileRef(profile_id, sketch_id) ==
    [profile |-> ProfileKey(profile_id), sketch |-> SketchKey(sketch_id)]

\* the entity a new E line creates; extent_two only for Two and Symmetric
ExtrudeFeature(ref, op, ext_type, d1, d2) ==
    IF ext_type \in {Str(<<"T", "w", "o">>),
                     Str(<<"S", "y", "m", "m", "e", "t", "r", "i", "c">>)}
    THEN [type |-> "ExtrudeFeature", profiles |-> <<ref>>,
          operation |-> operation_map_rev(op),
          extent_type |-> extent_type_map_rev(ext_type),
          start_extent |-> [type |-> "ProfilePlaneStartDefinition"],
          extent_one |-> [distance |-> [value |-> d1],
                          type |-> "DistanceExtentDefinition"],
          extent_two |-> [distance |-> [value |-> d2],
                          type |-> "DistanceExtentDefinition"]]
    ELSE [type |-> "ExtrudeFeature", profiles |-> <<ref>>,
          operation |-> operation_map_rev(op),
          extent_type |-> extent_type_map_rev(ext_type),
          start_extent |-> [type |-> "ProfilePlaneStartDefinition"],
          extent_one |-> [distance |-> [value |-> d1],
                          type |-> "DistanceExtentDefinition"]]

\* the comparison with "not last_extrude_key": no line ever joins a feature
SameExtrudeNoKey(sig) == sig = last_extrude_signature /\ last_extrude_key = NoKey

\* "current_extrude_signature == last_extrude_signature and last_extrude_key"
SameExtrude(sig) == sig = last_extrude_signature /\ last_extrude_key # NoKey

StepE(raw) ==
    LET params     == Parsed[raw].params
        profile_id == IntOf(params[1])
        sketch_id  == IntOf(params[2])
        op         == params[3]
        ext_type   == params[4]
        d1         == params[5]
        d2         == params[6]
        sig        == extrude_signature(sketch_id.v, op, ext_type, d1, d2)
        ref        == ProfileRef(profile_id.v, sketch_id.v)
        extrude_key == ExtrudeKey(extrude_counter)
    IN  /\ Enumerate(raw)
        /\ Parsed[raw].command = "E"
        /\ IF Len(params) # 6
           THEN Raise("ValueError", line_num, "arity")
           ELSE IF ~sketch_id.ok \/ ~profile_id.ok
           THEN Raise("ValueError", 0, "int()")
           ELSE IF SameExtrude(sig)
           THEN /\ entities' = [entities EXCEPT ![last_extrude_key].profiles =
                                   Append(@, ref)]
                /\ UNCHANGED <<sequence, heap, assigned, cursor, counters, trackers,
                               merging, result>>
           ELSE /\ entities' = Put(entities, extrude_key,
                                   ExtrudeFeature(ref, op, ext_type, d1, d2))
                /\ sequence' = Append(sequence,
                                      [index |-> sequence_index,
                                       type |-> "ExtrudeFeature",
                                       entity |-> extrude_key])
                /\ last_extrude_signature' = sig
                /\ last_extrude_key' = extrude_key
                /\ sequence_index' = sequence_index + 1
                /\ extrude_counter' = extrude_counter + 1
                /\ assigned' = Append(assigned, extrude_key)
                /\ UNCHANGED <<heap, cursor, point_counter, line_counter,
                               circle_counter, arc_counter, trackers, result>>

\* the loop ends: "return {"entities": entities, "sequence": sequence}"
Return ==
    /\ result.status = "running"
    /\ scenario \in PoolScenarios \/ (text # <<>> /\ Len(lines) = Len(text))
    /\ result' = Returned
    /\ UNCHANGED <<lines, document, cursor, counters, trackers, merging>>
    /\ UNCHANGED <<scenario, encoder, checker, normalizer, scorer, formatter>>

----------------------------------------------------------------------------
(* 10_assessment_B_C.py: the grammar validator *)

\* the span of s without the spaces at its two ends (the " *" of the pattern)
TrimSpaces(s) ==
    LET keep == {i \in 1..Len(s) : s[i] # " "}
    IN  IF keep = {} THEN <<>> ELSE SubSeq(s, Min(keep), Max(keep))

\* the pattern without its leading [ \-]*: ^([A-Z]) *\( *(.*?) *\)$
BaseStructureUnmarked(line) ==
    LET rest == {i \in 2..Len(line) : line[i] # " "}
        open == Min(rest)
    IN  IF /\ line # <<>>
           /\ line[1] \in Upper
           /\ rest # {}
           /\ line[open] = "("
           /\ open < Len(line)
           /\ line[Len(line)] = ")"
        THEN [matched |-> TRUE, command |-> line[1],
              params_str |-> TrimSpaces(SubSeq(line, open + 1, Len(line) - 1))]
        ELSE [matched |-> FALSE, command |-> NoCommand, params_str |-> <<>>]

\* re.match(r'^[ \-]*([A-Z]) *\( *(.*?) *\)$', line) on the stripped line:
\* [matched, command, params_str]
BaseStructure(line) ==
    LET body   == {i \in 1..Len(line) : line[i] \notin {" ", "-"}}
        letter == Min(body)
        rest   == {i \in (letter + 1)..Len(line) : line[i] # " "}
        open   == Min(rest)
    IN  IF /\ body # {}
           /\ line[letter] \in Upper
           /\ rest # {}
           /\ line[open] = "("
           /\ open < Len(line)
           /\ line[Len(line)] = ")"
        THEN [matched |-> TRUE, command |-> line[letter],
              params_str |-> TrimSpaces(SubSeq(line, open + 1, Len(line) - 1))]
        ELSE [matched |-> FALSE, command |-> NoCommand, params_str |-> <<>>]

\* "try: params.append(float(p_str)) except ValueError: params.append(p_str)"
Coerce(p_str) == IF IsFloatLiteral(p_str) THEN FloatOf(p_str) ELSE Str(p_str)

\* the params list validate_response_format builds from params_str
ValidatorParams(params_str) ==
    LET raw == Split(params_str, ",")
    IN  IF params_str = <<>> THEN <<>>
        ELSE [i \in 1..Len(raw) |-> Coerce(Strip(raw[i]))]

IsBooleanToken(p) ==
    p.k = "str" /\ Lower(p.s) \in {<<"t", "r", "u", "e">>, <<"f", "a", "l", "s", "e">>}

IsOperationToken(p) ==
    p \in {Str(<<"N", "e", "w">>), Str(<<"J", "o", "i", "n">>), Str(<<"C", "u", "t">>)}

IsExtentToken(p) ==
    p \in {Str(<<"O", "n", "e">>), Str(<<"T", "w", "o">>),
           Str(<<"S", "y", "m", "m", "e", "t", "r", "i", "c">>)}

\* rules[command][0]
ExpectedCount(command) ==
    CASE command \in {"S", "P", "O"} -> 1
      [] command = "L" -> 4
      [] command = "C" -> 3
      [] command = "A" -> 11
      [] command = "T" -> 12
      [] command = "E" -> 6

\* an E rule with positive distances and merely numeric profile and sketch
ExtrudeRuleDistances(i, param) ==
    CASE i \in {1, 2} -> IsNumber(param)
      [] i = 3        -> IsOperationToken(param)
      [] i = 4        -> IsExtentToken(param)
      [] i \in {5, 6} -> IsNumber(param) /\ Positive(param)

\* rules['E'][1][i](param): the six lambdas of the E rule
ExtrudeRule(i, param) ==
    CASE i \in {1, 2} -> IsNumber(param) /\ Positive(param)
      [] i = 3        -> IsOperationToken(param)
      [] i = 4        -> IsExtentToken(param)
      [] i \in {5, 6} -> IsNumber(param)

\* rules[command][1][i](param)
CheckFunction(command, i, param) ==
    CASE command \in {"S", "P"}           -> IsNumber(param) /\ Positive(param)
      [] command = "O"                    -> IsBooleanToken(param)
      [] command \in {"L", "C", "A", "T"} -> IsNumber(param)
      [] command = "E"                    -> ExtrudeRule(i, param)

Accepted == [ok |-> TRUE, cause |-> "", parameter |-> 0]

Rejected(cause, parameter) == [ok |-> FALSE, cause |-> cause, parameter |-> parameter]

validate_command_parameters(command, params) ==
    LET bad == {i \in 1..Len(params) : ~CheckFunction(command, i, params[i])}
    IN  IF command \notin {"S", "P", "O", "L", "C", "A", "T", "E"}
        THEN Rejected("Unknown command", 0)
        ELSE IF Len(params) # ExpectedCount(command)
        THEN Rejected("Expected parameters", 0)
        ELSE IF bad # {}
        THEN Rejected("Invalid type or value", Min(bad))
        ELSE Accepted

\* the body of the validator's loop for one line
CheckLine(raw) ==
    LET m == BaseStructure(Strip(raw))
    IN  IF ~m.matched
        THEN Rejected("Incorrect base structure", 0)
        ELSE validate_command_parameters(m.command, ValidatorParams(m.params_str))

\* what may stand before a command: nothing, indentation, a marker, both
Prefixes == {<<>>, <<" ", " ">>, <<"-", " ">>, Marker(2)}

\* a well-formed command of each letter, two of them written without spaces
CommandBodies ==
    {Cmd(<<>>, "S", <<<<"1">>>>),
     Cmd(<<>>, "P", <<<<"1">>>>),
     Cmd(<<>>, "O", <<<<"t", "r", "u", "e">>>>),
     Cmd(<<>>, "O", <<<<"f", "a", "l", "s", "e">>>>),
     Cmd(<<>>, "L", <<<<"0">>, <<"0">>, <<"1", "0">>, <<"0">>>>),
     <<"L", "(", "-", "1", ".", "5", ",", "2", ".", "5", ",", "0", ",", "1", "0", ")">>,
     Cmd(<<>>, "C", <<<<"0">>, <<"0">>, <<"5">>>>),
     <<"C", "(", "0", ",", "0", ",", "5", ")">>,
     Cmd(<<>>, "A", <<<<"1", "0">>, <<"0">>, <<"0">>, <<"1", "0">>, <<"0">>, <<"0">>, <<"1">>,
                      <<"0">>, <<"1", "0">>, <<"0">>, <<"1", ".", "5", "7">>>>),
     Cmd(<<>>, "T", <<<<"0">>, <<"0">>, <<"0">>, <<"1">>, <<"0">>, <<"0">>, <<"0">>, <<"1">>,
                      <<"0">>, <<"0">>, <<"0">>, <<"1">>>>),
     Cmd(<<>>, "E", <<<<"1">>, <<"1">>, <<"N", "e", "w">>, <<"O", "n", "e">>, <<"5">>, <<"0">>>>),
     Cmd(<<>>, "E", <<<<"2">>, <<"1">>, <<"J", "o", "i", "n">>, <<"T", "w", "o">>, <<"5">>,
                      <<"2", ".", "5">>>>),
     Cmd(<<>>, "E", <<<<"1">>, <<"2">>, <<"C", "u", "t">>,
                      <<"S", "y", "m", "m", "e", "t", "r", "i", "c">>, <<"5">>, <<"0">>>>)}

VariantLines == {prefix \o body : prefix \in Prefixes, body \in CommandBodies}

\* the lines a response may hold
ResponseLines ==
    LinePool \cup {RectangleText[i] : i \in 1..Len(RectangleText)} \cup VariantLines \cup
    {Cmd(<<>>, "S", <<<<"0">>>>),
     Cmd(<<>>, "E", <<<<"1">>, <<"1">>, <<"A", "d", "d">>, <<"O", "n", "e">>, <<"5">>, <<"0">>>>),
     Cmd(<<>>, "E", <<<<"1">>, <<"1">>, <<"N", "e", "w">>, <<"B", "o", "t", "h">>, <<"5">>, <<"0">>>>),
     Cmd(<<>>, "E", <<<<"1">>, <<"1">>, <<"N", "e", "w">>, <<"O", "n", "e">>, <<"-", "5">>, <<"0">>>>),
     Cmd(<<>>, "E", <<<<"1">>, <<"1">>, <<"N", "e", "w">>, <<"O", "n", "e">>, <<"f", "a", "r">>, <<"0">>>>),
     Cmd(<<>>, "E", <<<<"0">>, <<"1">>, <<"N", "e", "w">>, <<"O", "n", "e">>, <<"5">>, <<"5">>>>),
     Cmd(<<>>, "E", <<<<"1">>, <<"1">>, <<"N", "e", "w">>, <<"T", "w", "o">>, <<"5">>, <<"2">>>>),
     Cmd(<<>>, "L", <<<<"+", "1">>, <<"0">>, <<"1", "0">>, <<"0">>>>),
     Cmd(<<>>, "S", <<<<"i", "n", "f">>>>)}

Checked == [l \in ResponseLines |-> CheckLine(l)] @@ <<>>

\* what the validator's loop makes of a line: match.groups() and params
Structure ==
    [l \in ResponseLines |->
        LET m == BaseStructure(Strip(l))
        IN  [matched |-> m.matched, command |-> m.command,
             params |-> ValidatorParams(m.params_str)]] @@ <<>>

IsBlank == [l \in ResponseLines |-> Strip(l) = <<>>] @@ <<>>

\* the index enumerate(lines) gives the first line the loop rejects
line_index(kept, bad) == Min(bad) - 1

\* the loop going on after a rejected line, the last rejection returned
validate_whole_response(txt) ==
    LET kept == SelectSeq(txt, LAMBDA l : ~IsBlank[l])
        bad  == {i \in 1..Len(kept) : ~Checked[kept[i]].ok}
    IN  IF kept = <<>>
        THEN [valid |-> FALSE, line |-> 0, cause |-> "Response is empty."]
        ELSE IF bad = {}
        THEN [valid |-> TRUE, line |-> 0, cause |-> "Format is valid."]
        ELSE [valid |-> FALSE, line |-> Max(bad), cause |-> Checked[kept[Max(bad)]].cause]

\* validate_response_format on the text whose lines are txt: the verdict, the
\* line number of its message (0: the message names no line) and the cause
validate_response_format(txt) ==
    LET kept == SelectSeq(txt, LAMBDA l : ~IsBlank[l])
        bad  == {i \in 1..Len(kept) : ~Checked[kept[i]].ok}
    IN  IF kept = <<>>
        THEN [valid |-> FALSE, line |-> 0, cause |-> "Response is empty."]
        ELSE IF bad = {}
        THEN [valid |-> TRUE, line |-> 0, cause |-> "Format is valid."]
        ELSE [valid |-> FALSE, line |-> line_index(kept, bad) + 1,
              cause |-> Checked[kept[Min(bad)]].cause]

MaxResponse == 2

NoVerdict == [valid |-> FALSE, line |-> 0, cause |-> "none"]

\* the caller's text grows by one line
Write(l) ==
    /\ scenario = "response"
    /\ verdict = NoVerdict
    /\ Len(response_text) < MaxResponse
    /\ response_text' = Append(response_text, l)
    /\ UNCHANGED <<scenario, decoder, encoder, verdict, normalizer, scorer, formatter>>

Validate ==
    /\ scenario = "response"
    /\ verdict = NoVerdict
    /\ verdict' = validate_response_format(response_text)
    /\ UNCHANGED <<scenario, decoder, encoder, response_text, normalizer, scorer, formatter>>

----------------------------------------------------------------------------
(* Specification of the decoder on arbitrary line lists *)

NoTree == [entities |-> EmptyMap, sequence |-> <<>>]

\* nothing loaded, prune_json_data not called
NoDocument == [entities |-> <<>>, sequence |-> <<>>]

NotRun == [state |-> "not run", file |-> NoDocument]

NormalizerIdle ==
    /\ input_json = NoDocument
    /\ written = NotRun

\* evaluate_response not called; no record kept
NoEvaluation == [score |-> -1, reconstructed_shape |-> "None", details |-> "", kernel |-> "not called"]

NoRecord == [response_index |-> 0]

NotRendered == <<"not rendered">>

FormatterIdle ==
    /\ number = Zero
    /\ rendered = NotRendered

ScorerIdle ==
    /\ RECONSTRUCTION_MODULE_AVAILABLE = TRUE
    /\ eval_result = NoEvaluation
    /\ part_evaluations = <<>>
    /\ best_response = NoRecord

DecoderInit ==
    /\ lines = <<>>
    /\ entities = EmptyMap
    /\ sequence = <<>>
    /\ heap = <<>>
    /\ assigned = <<>>
    /\ current_sketch_key = NoKey
    /\ current_profile_key = NoKey
    /\ current_loop = 0
    /\ point_counter = 1
    /\ line_counter = 1
    /\ circle_counter = 1
    /\ arc_counter = 1
    /\ extrude_counter = 1
    /\ sequence_index = 0
    /\ point_tracker = EmptyMap
    /\ curve_tracker = EmptyMap
    /\ last_extrude_signature = NoSig
    /\ last_extrude_key = NoKey
    /\ result = Running

Init ==
    /\ scenario = "lines"
    /\ DecoderInit
    /\ tree = NoTree
    /\ text = <<>>
    /\ response_text = <<>>
    /\ verdict = NoVerdict
    /\ NormalizerIdle
    /\ ScorerIdle
    /\ FormatterIdle

Next ==
    \/ \E raw \in Offered : SkipBlank(raw)
    \/ \E raw \in Offered : SkipNoMatch(raw)
    \/ \E raw \in Offered : StepOther(raw)
    \/ \E raw \in Offered : StepS(raw)
    \/ \E raw \in Offered : StepP(raw)
    \/ \E raw \in Offered : StepO(raw)
    \/ \E raw \in Offered : StepL(raw)
    \/ \E raw \in Offered : StepC(raw)
    \/ \E raw \in Offered : StepA(raw)
    \/ \E raw \in Offered : StepT(raw)
    \/ \E raw \in Offered : StepE(raw)
    \/ Return

Spec == Init /\ [][Next]_vars

----------------------------------------------------------------------------
(* Specification of the decoder on well-formed lines of two sketches *)

InitSketches ==
    /\ scenario = "sketches"
    /\ DecoderInit
    /\ tree = NoTree
    /\ text = <<>>
    /\ response_text = <<>>
    /\ verdict = NoVerdict
    /\ NormalizerIdle
    /\ ScorerIdle
    /\ FormatterIdle

NextSketches ==
    \/ \E raw \in Offered : StepS(raw)
    \/ \E raw \in Offered : StepP(raw)
    \/ \E raw \in Offered : StepO(raw)
    \/ \E raw \in Offered : StepL(raw)
    \/ \E raw \in Offered : StepC(raw)
    \/ \E raw \in Offered : StepA(raw)
    \/ \E raw \in Offered : StepE(raw)
    \/ Return

SpecSketches == InitSketches /\ [][NextSketches]_vars

----------------------------------------------------------------------------
(* Specification of the validator on arbitrary texts *)

InitValidate ==
    /\ scenario = "response"
    /\ DecoderInit
    /\ tree = NoTree
    /\ text = <<>>
    /\ response_text = <<>>
    /\ verdict = NoVerdict
    /\ NormalizerIdle
    /\ ScorerIdle
    /\ FormatterIdle

NextValidate ==
    \/ \E l \in ResponseLines : Write(l)
    \/ Validate

SpecValidate == InitValidate /\ [][NextValidate]_vars

----------------------------------------------------------------------------
(* Specification of the round trip: a tree is encoded and its text decoded *)

\* compress_cad_json on the tree
Compress ==
    /\ scenario = "roundtrip"
    /\ text = <<>>
    /\ text' = compress_cad_json(tree)
    /\ UNCHANGED <<scenario, decoder, tree, checker, normalizer, scorer, formatter>>

\* the value decompress_to_json returns, each loop holding its own list
Decoded ==
    [entities |->
        [k \in DOMAIN entities |->
            IF entities[k].type = "Sketch"
            THEN [entities[k] EXCEPT !.profiles =
                     [p \in DOMAIN entities[k].profiles |->
                         [loops |->
                             [i \in 1..Len(entities[k].profiles[p].loops) |->
                                 [is_outer |-> entities[k].profiles[p].loops[i].is_outer,
                                  profile_curves |->
                                      heap[entities[k].profiles[p].loops[i].profile_curves]]]]]]
            ELSE entities[k]],
     sequence |-> sequence]

InitRoundTrip ==
    /\ scenario = "roundtrip"
    /\ DecoderInit
    /\ tree \in TreeFamily
    /\ text = <<>>
    /\ response_text = <<>>
    /\ verdict = NoVerdict
    /\ NormalizerIdle
    /\ ScorerIdle
    /\ FormatterIdle

NextRoundTrip ==
    \/ Compress
    \/ \E raw \in Offered : StepS(raw)
    \/ \E raw \in Offered : StepP(raw)
    \/ \E raw \in Offered : StepO(raw)
    \/ \E raw \in Offered : StepL(raw)
    \/ \E raw \in Offered : StepC(raw)
    \/ \E raw \in Offered : StepA(raw)
    \/ \E raw \in Offered : StepT(raw)
    \/ \E raw \in Offered : StepE(raw)
    \/ Return

SpecRoundTrip == InitRoundTrip /\ [][NextRoundTrip]_vars

----------------------------------------------------------------------------
(* 1_prune_json.py and check_support.py: the normalizer.  A JSON object      *)
(* whose key order the code relies on (entities, points, curves, profiles)   *)
(* is the sequence of its <<key, value>> pairs; an id of the input is        *)
(* <<"uuid", n>>.                                                            *)

SUPPORTED_CURVE_TYPES == {"SketchLine", "SketchCircle", "SketchArc"}

SUPPORTED_PROFILE_SEGMENT_TYPES == {"Line3D", "Circle3D", "Arc3D"}

SUPPORTED_EXTENT_TYPES == {"DistanceExtentDefinition"}

SUPPORTED_EXTRUDE_TYPES ==
    {"OneSideFeatureExtentType", "SymmetricFeatureExtentType", "TwoSidesFeatureExtentType"}

SUPPORTED_START_EXTENT_TYPES == {"ProfilePlaneStartDefinition"}

\* d.get(key, {}).get("type"): None when the key is absent
TypeOf(d, key) == IF key \in DOMAIN d THEN d[key].type ELSE "None"

\* the object with only the keys of keys it has
Restrict(d, keys) == [k \in DOMAIN d \cap keys |-> d[k]]

check_support(entity_data) ==
    CASE entity_data.type = "Sketch" ->
            /\ \A i \in 1..Len(entity_data.curves) :
                  entity_data.curves[i][2].type \in SUPPORTED_CURVE_TYPES
            /\ \A i \in 1..Len(entity_data.profiles) :
                  \A l \in 1..Len(entity_data.profiles[i][2].loops) :
                      LET segments == entity_data.profiles[i][2].loops[l].profile_curves
                      IN  \A s \in 1..Len(segments) :
                              segments[s].type \in SUPPORTED_PROFILE_SEGMENT_TYPES
      [] entity_data.type = "ExtrudeFeature" ->
            /\ TypeOf(entity_data, "start_extent") \in SUPPORTED_START_EXTENT_TYPES
            /\ entity_data.extent_type \in SUPPORTED_EXTRUDE_TYPES
            /\ TypeOf(entity_data, "extent_one") \in SUPPORTED_EXTENT_TYPES
            /\ entity_data.extent_type = "TwoSidesFeatureExtentType"
                  => TypeOf(entity_data, "extent_two") \in SUPPORTED_EXTENT_TYPES
      [] OTHER -> TRUE

\* the fields prune_sketch_entity keeps of a curve, and the points it uses
CurveFields(ctype) ==
    CASE ctype = "SketchLine"   -> {"type", "start_point", "end_point"}
      [] ctype = "SketchCircle" -> {"type", "center_point", "radius"}
      [] ctype = "SketchArc"    ->
            {"type", "start_point", "end_point", "center_point", "radius",
             "reference_vector", "start_angle", "end_angle"}
      [] OTHER -> {}

\* the list of the third pass with "center_point" left out
PointRefKeysOfLines == {"start_point", "end_point"}

\* the point references the third pass of rename_ids rewrites in a curve
PointRefKeys == {"center_point", "start_point", "end_point"}

prune_sketch_entity(entity) ==
    LET kept == SelectSeq(entity.curves,
                          LAMBDA c : c[2].type \in SUPPORTED_CURVE_TYPES)
        pruned_curves ==
            [i \in 1..Len(kept) |->
                <<kept[i][1], Restrict(kept[i][2], CurveFields(kept[i][2].type))>>]
        used_point_ids ==
            UNION {{pruned_curves[i][2][f] : f \in DOMAIN pruned_curves[i][2] \cap
                                             {"start_point", "end_point", "center_point"}} :
                      i \in 1..Len(pruned_curves)}
        pruned_loop(loop) ==
            [is_outer |-> loop.is_outer,
             profile_curves |->
                [s \in 1..Len(loop.profile_curves) |->
                    Restrict(loop.profile_curves[s],
                             {"type", "curve", "start_point", "end_point", "center_point",
                              "normal", "reference_vector", "radius", "start_angle",
                              "end_angle"})]]
        pruned_profiles ==
            [i \in 1..Len(entity.profiles) |->
                <<entity.profiles[i][1],
                  [loops |-> [l \in 1..Len(entity.profiles[i][2].loops) |->
                                 pruned_loop(entity.profiles[i][2].loops[l])]]>>]
    IN  [type |-> "Sketch",
         points |-> SelectSeq(entity.points, LAMBDA p : p[1] \in used_point_ids),
         curves |-> pruned_curves,
         profiles |-> pruned_profiles,
         transform |-> entity.transform]

\* extent_one / extent_two as prune_json_data keeps them
PruneExtent(extent) ==
    [k \in DOMAIN extent \ {"taper_angle"} |->
        IF k = "distance" THEN [value |-> extent.distance.value] ELSE extent[k]]

\* lines 212-287 of prune_json_data: the document without its redundant
\* top-level fields, its unused sketches and the fields no later stage reads
PruneEntities(doc) ==
    LET all == doc.entities
        sketch_uuids_in_use ==
            UNION {{all[i][2].profiles[p].sketch : p \in 1..Len(all[i][2].profiles)} :
                      i \in {j \in 1..Len(all) : all[j][2].type = "ExtrudeFeature"}}
        keep == SelectSeq(all, LAMBDA e :
                    \/ e[2].type = "Sketch" /\ e[1] \in sketch_uuids_in_use
                    \/ e[2].type = "ExtrudeFeature")
        pruned(e) ==
            IF e.type = "Sketch" THEN prune_sketch_entity(e)
            ELSE [k \in DOMAIN e \cap {"type", "profiles", "operation", "extent_type",
                                       "start_extent", "extent_one", "extent_two"} |->
                     IF k \in {"extent_one", "extent_two"} THEN PruneExtent(e[k])
                     ELSE e[k]]
        new_entities == [i \in 1..Len(keep) |-> <<keep[i][1], pruned(keep[i][2])>>]
        valid_entities == {new_entities[i][1] : i \in 1..Len(new_entities)}
        steps == SelectSeq(doc.sequence, LAMBDA s : s.entity \in valid_entities)
    IN  [entities |-> new_entities,
         sequence |-> [i \in 1..Len(steps) |->
                          Restrict(steps[i], {"index", "type", "entity", "curve"})]]

\* counters that start again from 0 in every sketch
new_name_per_sketch(visits, n) ==
    <<visits[n].counter,
      Cardinality({m \in 1..n : /\ visits[m].counter = visits[n].counter
                                /\ visits[m].at[1] = visits[n].at[1]})>>

\* counters[type] += 1 and f"{type}{counters[type]}" at the n-th visit of the
\* second pass: one counter per type for the whole document
new_name(visits, n) ==
    <<visits[n].counter,
      Cardinality({m \in 1..n : visits[m].counter = visits[n].counter})>>

\* rename_ids on a pruned document (sketches and extrusions only, every
\* point a Point3D, every curve of a supported type).  visits lists what the
\* second pass names, in its order; a counter is the number of earlier
\* visits of the same type plus one; id_mapping holds for an old id the name
\* given at its last visit.
rename_ids(pruned) ==
    LET old == pruned.entities
        kind(i) == IF old[i][2].type = "Sketch" THEN "Sketch" ELSE "Extrude"
        entity_name(i) ==
            <<kind(i), Cardinality({j \in 1..i : kind(j) = kind(i)})>>
        inside(i) ==
            IF old[i][2].type # "Sketch" THEN <<>>
            ELSE [j \in 1..Len(old[i][2].points) |->
                     [old |-> old[i][2].points[j][1], counter |-> "Point3D",
                      at |-> <<i, "points", j>>]]
                 \o [j \in 1..Len(old[i][2].curves) |->
                     [old |-> old[i][2].curves[j][1],
                      counter |-> old[i][2].curves[j][2].type,
                      at |-> <<i, "curves", j>>]]
                 \o [j \in 1..Len(old[i][2].profiles) |->
                     [old |-> old[i][2].profiles[j][1], counter |-> "Profile",
                      at |-> <<i, "profiles", j>>]]
        visits == Concat([i \in 1..Len(old) |-> inside(i)])
        visit_name(n) == new_name(visits, n)
        name_at(i, part, j) ==
            visit_name(CHOOSE n \in 1..Len(visits) : visits[n].at = <<i, part, j>>)
        id_mapping(id) ==
            LET hits == {n \in 1..Len(visits) : visits[n].old = id}
                tops == {i \in 1..Len(old) : old[i][1] = id}
            IN  IF hits # {} THEN visit_name(Max(hits))
                ELSE IF tops # {} THEN entity_name(Max(tops))
                ELSE id
        renamed_curve(c) ==
            [f \in DOMAIN c |-> IF f \in PointRefKeys THEN id_mapping(c[f]) ELSE c[f]]
        renamed_loop(loop) ==
            [is_outer |-> loop.is_outer,
             profile_curves |->
                [s \in 1..Len(loop.profile_curves) |->
                    [loop.profile_curves[s] EXCEPT !.curve = id_mapping(@)]]]
        renamed(i) ==
            LET e == old[i][2]
            IN  IF e.type = "Sketch"
                THEN [e EXCEPT
                        !.points = [j \in 1..Len(@) |-> <<name_at(i, "points", j), @[j][2]>>],
                        !.curves = [j \in 1..Len(@) |->
                                       <<name_at(i, "curves", j), renamed_curve(@[j][2])>>],
                        !.profiles =
                            [j \in 1..Len(@) |->
                                <<name_at(i, "profiles", j),
                                  [loops |-> [l \in 1..Len(@[j][2].loops) |->
                                                 renamed_loop(@[j][2].loops[l])]]>>]]
                ELSE [e EXCEPT
                        !.profiles =
                            [p \in 1..Len(@) |->
                                [profile |-> id_mapping(@[p].profile),
                                 sketch |-> id_mapping(@[p].sketch)]]]
    IN  [entities |-> [i \in 1..Len(old) |-> <<entity_name(i), renamed(i)>>],
         sequence |->
            [s \in 1..Len(pruned.sequence) |->
                [f \in DOMAIN pruned.sequence[s] |->
                    IF f \in {"entity", "curve"} THEN id_mapping(pruned.sequence[s][f])
                    ELSE pruned.sequence[s][f]]]]

\* prune_json_data once the file is read: nothing written for a document
\* check_support refuses, else the pruned and renamed document
Skipped == [state |-> "skipped", file |-> NoDocument]

Saved(doc) == [state |-> "saved", file |-> doc]

Supported(doc) ==
    \A i \in 1..Len(doc.entities) : check_support(doc.entities[i][2])

----------------------------------------------------------------------------
(* Raw documents given to the normalizer: a sketch of a line and a second    *)
(* curve (with a point no curve uses), a second sketch of one circle, and an *)
(* extrusion of the first sketch's profile.  The second sketch is extruded   *)
(* as well ("used"), left out of the extrusion ("unused"), or extruded and   *)
(* holding a point and a profile under ids of the first sketch ("colliding").*)

Uuid(n) == <<"uuid", n>>

RawChoices ==
    [curve : {"SketchCircle", "SketchEllipse"},
     operation : {"NewBodyFeatureOperation", "JoinFeatureOperation",
                  "CutFeatureOperation", "IntersectFeatureOperation"},
     extent_type : {"OneSideFeatureExtentType", "TwoSidesFeatureExtentType"},
     extent : {"DistanceExtentDefinition", "ToEntityExtentDefinition"},
     start : {"ProfilePlaneStartDefinition", "OffsetStartDefinition"},
     second : {"used", "unused", "colliding"}]

RawExtent(type, value) ==
    [type |-> type,
     distance |-> [type |-> "ModelParameter", value |-> value, role |-> "AlongDistance"],
     taper_angle |-> [type |-> "ModelParameter", value |-> Zero, role |-> "TaperAngle"]]

RawDocument(c) ==
    LET point_b   == IF c.second = "colliding" THEN Uuid(11) ELSE Uuid(14)
        profile_b == IF c.second = "colliding" THEN Uuid(31) ELSE Uuid(32)
        segment   == IF c.curve = "SketchCircle" THEN "Circle3D" ELSE "Ellipse3D"
        sketch_a ==
            [type |-> "Sketch", name |-> "Sketch 1",
             points |-> <<<<Uuid(11), Point3D(At(Zero, Zero))>>,
                          <<Uuid(12), Point3D(At(Num(FALSE, 10, <<>>), Zero))>>,
                          <<Uuid(13), Point3D(At(Num(FALSE, 5, <<>>), Num(FALSE, 5, <<>>)))>>>>,
             curves |-> <<<<Uuid(21), [type |-> "SketchLine", construction_geom |-> FALSE,
                                      start_point |-> Uuid(11), end_point |-> Uuid(12)]>>,
                          <<Uuid(22), [type |-> c.curve, construction_geom |-> FALSE,
                                      center_point |-> Uuid(11),
                                      radius |-> Num(FALSE, 5, <<>>)]>>>>,
             profiles |->
                <<<<Uuid(31),
                    [loops |-> <<[is_outer |-> TRUE,
                                  profile_curves |->
                                     <<[type |-> "Line3D", curve |-> Uuid(21),
                                        start_point |-> Point3D(At(Zero, Zero)),
                                        end_point |-> Point3D(At(Num(FALSE, 10, <<>>), Zero))],
                                       [type |-> segment, curve |-> Uuid(22),
                                        center_point |-> Point3D(At(Zero, Zero)),
                                        normal |-> Normal,
                                        radius |-> Num(FALSE, 5, <<>>)]>>]>>,
                     properties |-> "area"]>>>>,
             transform |-> Transform(Zero)]
        sketch_b ==
            [type |-> "Sketch", name |-> "Sketch 2",
             points |-> <<<<point_b, Point3D(At(Zero, Zero))>>>>,
             curves |-> <<<<Uuid(23), [type |-> "SketchCircle", construction_geom |-> FALSE,
                                      center_point |-> point_b,
                                      radius |-> Num(FALSE, 2, <<"5">>)]>>>>,
             profiles |->
                <<<<profile_b,
                    [loops |-> <<[is_outer |-> TRUE,
                                  profile_curves |->
                                     <<[type |-> "Circle3D", curve |-> Uuid(23),
                                        center_point |-> Point3D(At(Zero, Zero)),
                                        normal |-> Normal,
                                        radius |-> Num(FALSE, 2, <<"5">>)]>>]>>,
                     properties |-> "area"]>>>>,
             transform |-> Transform(Num(FALSE, 5, <<>>))]
        one_side ==
            [type |-> "ExtrudeFeature", name |-> "Extrude 1",
             profiles |-> <<[profile |-> Uuid(31), sketch |-> Uuid(1)]>>
                          \o (IF c.second = "unused" THEN <<>>
                              ELSE <<[profile |-> profile_b, sketch |-> Uuid(2)]>>),
             operation |-> c.operation,
             extent_type |-> c.extent_type,
             start_extent |-> [type |-> c.start],
             extent_one |-> RawExtent(c.extent, Num(FALSE, 5, <<>>))]
        extrude ==
            IF c.extent_type = "TwoSidesFeatureExtentType"
            THEN ("extent_two" :> RawExtent("DistanceExtentDefinition", Num(FALSE, 2, <<"5">>)))
                     @@ one_side
            ELSE one_side
    IN  [metadata |-> "parent_project",
         entities |-> <<<<Uuid(1), sketch_a>>, <<Uuid(2), sketch_b>>, <<Uuid(3), extrude>>>>,
         sequence |->
            <<[index |-> 0, type |-> "Sketch", entity |-> Uuid(1), curve |-> Uuid(21)],
              [index |-> 1, type |-> "Sketch", entity |-> Uuid(1), curve |-> Uuid(22)],
              [index |-> 2, type |-> "Sketch", entity |-> Uuid(2), curve |-> Uuid(23)],
              [index |-> 3, type |-> "ExtrudeFeature", entity |-> Uuid(3)]>>]

RawDocuments == {RawDocument(c) : c \in RawChoices}

----------------------------------------------------------------------------
(* Specification of the normalizer on the raw documents *)

\* "File contains unsupported features, skipping pruning": return at line 210
SkipUnsupported ==
    /\ scenario = "normalize"
    /\ written = NotRun
    /\ ~Supported(input_json)
    /\ written' = Skipped
    /\ UNCHANGED <<scenario, decoder, encoder, checker, input_json, scorer, formatter>>

\* lines 212-295: prune, rename_ids, json.dump
PruneAndSave ==
    /\ scenario = "normalize"
    /\ written = NotRun
    /\ Supported(input_json)
    /\ written' = Saved(rename_ids(PruneEntities(input_json)))
    /\ UNCHANGED <<scenario, decoder, encoder, checker, input_json, scorer, formatter>>

InitNormalize ==
    /\ scenario = "normalize"
    /\ DecoderInit
    /\ tree = NoTree
    /\ text = <<>>
    /\ response_text = <<>>
    /\ verdict = NoVerdict
    /\ input_json \in RawDocuments
    /\ written = NotRun
    /\ ScorerIdle
    /\ FormatterIdle

NextNormalize ==
    \/ SkipUnsupported
    \/ PruneAndSave

SpecNormalize == InitNormalize /\ [][NextNormalize]_vars

-----------------------------------------------------------------------------
(* 10_assessment_B_C.py: evaluate_response and the choice of the best        *)
(* response of a part.  A score is in tenths (0, 5, 10); so are the two      *)
(* similarities.  The kernel is outside the program: its outcome is an       *)
(* input of the step that calls it.                                          *)

MaxCandidates == 3

KernelOutcomes == {"solid", "null", "raises"}

\* difflib ratios of a response against the ground truth
Similarities == {3, 7}

\* calculate_bbox_similarity of a rebuilt solid; <<>>: no ground-truth box or
\* no box of the solid, the record gets no "bbox_sim"
BBoxSimilarities == {<<>>, <<4>>, <<9>>}

None == [none |-> TRUE]

\* decompress_to_json called anew, its locals keeping the last call's counters
BeginDecodeKeepingCounters ==
    /\ lines' = <<>>
    /\ entities' = EmptyMap
    /\ sequence' = <<>>
    /\ heap' = <<>>
    /\ assigned' = <<>>
    /\ current_sketch_key' = NoKey
    /\ current_profile_key' = NoKey
    /\ current_loop' = 0
    /\ point_tracker' = EmptyMap
    /\ curve_tracker' = EmptyMap
    /\ last_extrude_signature' = NoSig
    /\ last_extrude_key' = NoKey
    /\ result' = Running
    /\ UNCHANGED counters

\* decode_json.py 30-57: every call of decompress_to_json starts from fresh
\* locals
BeginDecode ==
    /\ lines' = <<>>
    /\ entities' = EmptyMap
    /\ sequence' = <<>>
    /\ heap' = <<>>
    /\ assigned' = <<>>
    /\ current_sketch_key' = NoKey
    /\ current_profile_key' = NoKey
    /\ current_loop' = 0
    /\ point_counter' = 1
    /\ line_counter' = 1
    /\ circle_counter' = 1
    /\ arc_counter' = 1
    /\ extrude_counter' = 1
    /\ sequence_index' = 0
    /\ point_tracker' = EmptyMap
    /\ curve_tracker' = EmptyMap
    /\ last_extrude_signature' = NoSig
    /\ last_extrude_key' = NoKey
    /\ result' = Running

\* lines 402-406 and 274-279: the response is cleaned and validated; a valid
\* one is stripped, split and handed to the decoder
Evaluate(raw) ==
    /\ scenario = "evaluate"
    /\ best_response = NoRecord
    /\ verdict = NoVerdict
    /\ Len(part_evaluations) < MaxCandidates
    /\ LET res_text == clean_response_text(raw)
           v        == validate_response_format(res_text)
       IN  /\ response_text' = res_text
           /\ verdict' = v
           /\ IF v.valid
              THEN /\ text' = StripText(res_text)
                   /\ BeginDecode
                   /\ eval_result' = NoEvaluation
              ELSE /\ eval_result' = [score |-> 0, reconstructed_shape |-> "None",
                                      details |-> v.cause, kernel |-> "not called"]
                   /\ UNCHANGED <<text, decoder>>
    /\ UNCHANGED <<scenario, tree, normalizer, RECONSTRUCTION_MODULE_AVAILABLE,
                   part_evaluations, best_response, formatter>>

\* lines 280-282: "if not decode_result['success']"
DecodeFailed ==
    /\ scenario = "evaluate"
    /\ verdict.valid
    /\ eval_result = NoEvaluation
    /\ result.status = "failed"
    /\ eval_result' = [score |-> 0, reconstructed_shape |-> "None",
                       details |-> "decoding failed", kernel |-> "not called"]
    /\ UNCHANGED <<scenario, decoder, encoder, checker, normalizer,
                   RECONSTRUCTION_MODULE_AVAILABLE, part_evaluations, best_response,
                   formatter>>

\* lines 286-306 with "if shape:" for "if shape and not shape.IsNull():"
reconstructed_if_any(kernel) ==
    IF ~RECONSTRUCTION_MODULE_AVAILABLE
    THEN [score |-> 5, reconstructed_shape |-> "None",
          details |-> "Reconstruction module not available.", kernel |-> "not called"]
    ELSE IF kernel \in {"solid", "null"}
    THEN [score |-> 10, reconstructed_shape |-> kernel,
          details |-> "Reconstruction successful.", kernel |-> kernel]
    ELSE [score |-> 5, reconstructed_shape |-> "None",
          details |-> "Reconstruction failed with exception", kernel |-> kernel]

\* lines 286-306: what evaluate_response returns for a decoded response, the
\* kernel giving a solid, a null shape or an exception
reconstructed(kernel) ==
    IF ~RECONSTRUCTION_MODULE_AVAILABLE
    THEN [score |-> 5, reconstructed_shape |-> "None",
          details |-> "Reconstruction module not available.", kernel |-> "not called"]
    ELSE IF kernel = "solid"
    THEN [score |-> 10, reconstructed_shape |-> "solid",
          details |-> "Reconstruction successful.", kernel |-> kernel]
    ELSE IF kernel = "null"
    THEN [score |-> 5, reconstructed_shape |-> "None",
          details |-> "Reconstruction resulted in a null shape.", kernel |-> kernel]
    ELSE [score |-> 5, reconstructed_shape |-> "None",
          details |-> "Reconstruction failed with exception", kernel |-> kernel]

Reconstruct(kernel) ==
    /\ scenario = "evaluate"
    /\ verdict.valid
    /\ eval_result = NoEvaluation
    /\ result.status = "returned"
    /\ eval_result' = reconstructed(kernel)
    /\ UNCHANGED <<scenario, decoder, encoder, checker, normalizer,
                   RECONSTRUCTION_MODULE_AVAILABLE, part_evaluations, best_response,
                   formatter>>

\* lines 407-427: the record of the response, "bbox_sim" only for a score of
\* 1.0 with both boxes known
Record(similarity, bbox) ==
    /\ scenario = "evaluate"
    /\ eval_result # NoEvaluation
    /\ bbox # <<>> => eval_result.score = 10
    /\ LET record ==
               [response_index |-> Len(part_evaluations) + 1,
                score |-> eval_result.score,
                similarity |-> similarity,
                response_text |-> response_text,
                details |-> eval_result.details,
                decoded_json |-> IF eval_result.score >= 5 THEN Decoded ELSE None,
                reconstructed_shape |-> eval_result.reconstructed_shape]
       IN  part_evaluations' =
               Append(part_evaluations,
                      IF bbox = <<>> THEN record ELSE record @@ ("bbox_sim" :> bbox[1]))
    /\ eval_result' = NoEvaluation
    /\ verdict' = NoVerdict
    /\ UNCHANGED <<scenario, decoder, encoder, response_text, normalizer,
                   RECONSTRUCTION_MODULE_AVAILABLE, best_response, formatter>>

\* the key with the text similarity first
key_by_similarity(x) ==
    <<x.similarity, IF "bbox_sim" \in DOMAIN x THEN x.bbox_sim ELSE 0, x.score>>

\* lambda x: (x["score"], x.get("bbox_sim", 0), x["similarity"])
best_key(x) == <<x.score, IF "bbox_sim" \in DOMAIN x THEN x.bbox_sim ELSE 0, x.similarity>>

\* a < b of two tuples of the same length
TupleLess(a, b) ==
    \E i \in 1..Len(a) : a[i] < b[i] /\ \A j \in 1..(i - 1) : a[j] = b[j]

\* max(records, key=...): the first record no other record's key exceeds
max_by_key(records) ==
    records[Min({i \in 1..Len(records) :
                    \A j \in 1..Len(records) : ~TupleLess(best_key(records[i]), best_key(records[j]))})]

\* lines 429-432
Select ==
    /\ scenario = "evaluate"
    /\ verdict = NoVerdict
    /\ best_response = NoRecord
    /\ part_evaluations # <<>>
    /\ best_response' = max_by_key(part_evaluations)
    /\ UNCHANGED <<scenario, decoder, encoder, checker, normalizer,
                   RECONSTRUCTION_MODULE_AVAILABLE, eval_result, part_evaluations,
                   formatter>>

InitEvaluate ==
    /\ scenario = "evaluate"
    /\ DecoderInit
    /\ tree = NoTree
    /\ text = <<>>
    /\ response_text = <<>>
    /\ verdict = NoVerdict
    /\ NormalizerIdle
    /\ RECONSTRUCTION_MODULE_AVAILABLE \in BOOLEAN
    /\ eval_result = NoEvaluation
    /\ part_evaluations = <<>>
    /\ best_response = NoRecord
    /\ FormatterIdle

NextEvaluate ==
    \/ \E raw \in CandidateTexts : Evaluate(raw)
    \/ \E raw \in Offered : StepS(raw)
    \/ \E raw \in Offered : StepP(raw)
    \/ \E raw \in Offered : StepO(raw)
    \/ \E raw \in Offered : StepL(raw)
    \/ \E raw \in Offered : StepT(raw)
    \/ \E raw \in Offered : StepE(raw)
    \/ Return
    \/ DecodeFailed
    \/ \E kernel \in KernelOutcomes : Reconstruct(kernel)
    \/ \E similarity \in Similarities, bbox \in BBoxSimilarities : Record(similarity, bbox)
    \/ Select

SpecEvaluate == InitEvaluate /\ [][NextEvaluate]_vars

-----------------------------------------------------------------------------
(* compress_json.py: format_value on one value.  The values are decimal      *)
(* expansions of up to MaxZeros + 2 fraction digits; those ending in a ninth *)
(* digit 5 are left out, the binary float deciding which way they round.     *)

MaxZeros == 9

IntegerParts == {0, 1, 9, 12}

\* the digits after the leading zeros of a fraction
Tails == {<<"1">>, <<"4">>, <<"4", "9">>, <<"5", "1">>, <<"9", "9">>, <<"2", "5">>, <<"6">>}

Nines(n) == [i \in 1..n |-> "9"]

Fractions ==
    {fr \in {[i \in 1..zeros |-> "0"] \o tail : zeros \in 0..MaxZeros, tail \in Tails} :
        ~(Len(fr) = 9 /\ fr[9] = "5")}
        \cup {<<>>, Nines(8), Nines(9), Nines(8) \o <<"4">>,
              <<"1", "2", "3", "4", "5", "6", "7", "8", "9", "1">>,
              <<"1", "4", "1", "5", "9", "2", "6", "5", "3", "6">>}

FormatInputs ==
    {Num(neg, ip, fr) : neg \in BOOLEAN, ip \in IntegerParts, fr \in Fractions}

Format ==
    /\ scenario = "format"
    /\ rendered = NotRendered
    /\ rendered' = format_value(number)
    /\ UNCHANGED <<scenario, decoder, encoder, checker, normalizer, scorer, number>>

InitFormat ==
    /\ scenario = "format"
    /\ DecoderInit
    /\ tree = NoTree
    /\ text = <<>>
    /\ response_text = <<>>
    /\ verdict = NoVerdict
    /\ NormalizerIdle
    /\ ScorerIdle
    /\ number \in FormatInputs
    /\ rendered = NotRendered

NextFormat == Format

SpecFormat == InitFormat /\ [][NextFormat]_vars

----------------------------------------------------------------------------
(* Reading the input, for the properties below *)

EightCommands == {"S", "P", "O", "L", "C", "A", "T", "E"}

\* an E line the decoder can take: six parameters, integer profile and sketch
IsExtrudeLine(l) ==
    /\ Parsed[l].command = "E"
    /\ Len(Parsed[l].params) = 6
    /\ IntOf(Parsed[l].params[1]).ok
    /\ IntOf(Parsed[l].params[2]).ok

\* (sketch id, operation, extent kind, d1, d2) of an E line
ExtrudeFields(l) ==
    <<IntOf(Parsed[l].params[2]).v, Parsed[l].params[3], Parsed[l].params[4],
      Parsed[l].params[5], Parsed[l].params[6]>>

\* the profile reference an E line stands for
ExtrudeRef(l) ==
    [profile |-> <<"Profile", IntOf(Parsed[l].params[1]).v>>,
     sketch  |-> <<"Sketch", IntOf(Parsed[l].params[2]).v>>]

\* this step read one more line and decoding goes on
ReadOn == lines' # lines /\ result'.status = "running"

----------------------------------------------------------------------------
(* C2: two immediately consecutive E lines with equal (sketch id, operation, *)
(* extent kind, d1, d2) decode into one ExtrudeFeature: the second line adds *)
(* its profile reference after the first line's, in the same feature, and    *)
(* consumes no sequence step and no extrude id.                              *)
C2_ExtrudeMerge ==
    [][(/\ ReadOn
        /\ Len(lines') >= 2
        /\ IsExtrudeLine(lines'[Len(lines') - 1])
        /\ IsExtrudeLine(lines'[Len(lines')])
        /\ ExtrudeFields(lines'[Len(lines') - 1]) = ExtrudeFields(lines'[Len(lines')]))
       => /\ extrude_counter' = extrude_counter
          /\ sequence' = sequence
          /\ \E e \in DOMAIN entities :
                /\ entities[e].type = "ExtrudeFeature"
                /\ entities[e].profiles[Len(entities[e].profiles)]
                       = ExtrudeRef(lines'[Len(lines') - 1])
                /\ entities' = [entities EXCEPT ![e].profiles =
                                   Append(@, ExtrudeRef(lines'[Len(lines')]))]]_vars

C2_Witness ==
    /\ lines = <<LineE11, LineE21>>
    /\ result.status = "running"
    /\ DOMAIN entities = {ExtrudeKey(1)}
    /\ entities[ExtrudeKey(1)].profiles
           = <<ProfileRef(1, 1), ProfileRef(2, 1)>>
    /\ Len(sequence) = 1
    /\ extrude_counter = 2

(* C3: an E line starts a new ExtrudeFeature (fresh sequential id, its own   *)
(* sequence step) whenever the line before it is a non-blank line that is    *)
(* not an E line, or is an E line with another (sketch, op, extent, d1, d2). *)
C3_NewFeatureUnlessConsecutive ==
    [][(/\ ReadOn
        /\ Len(lines') >= 2
        /\ IsExtrudeLine(lines'[Len(lines')])
        /\ \/ /\ ~Parsed[lines'[Len(lines') - 1]].blank
              /\ Parsed[lines'[Len(lines') - 1]].command # "E"
           \/ /\ IsExtrudeLine(lines'[Len(lines') - 1])
              /\ ExtrudeFields(lines'[Len(lines') - 1])
                     # ExtrudeFields(lines'[Len(lines')]))
       => /\ extrude_counter' = extrude_counter + 1
          /\ ExtrudeKey(extrude_counter) \notin DOMAIN entities
          /\ ExtrudeKey(extrude_counter) \in DOMAIN entities'
          /\ sequence' = Append(sequence,
                                [index |-> Len(sequence), type |-> "ExtrudeFeature",
                                 entity |-> ExtrudeKey(extrude_counter)])]_vars

(* C6: a non-blank line that is no command of the S/P/O/L/C/A/T/E grammar    *)
(* (no command letter at its start, or another letter) aborts decoding: it   *)
(* is the last line read and the decode has failed.                          *)
Malformed(l) == ~Parsed[l].blank /\ Parsed[l].command \notin EightCommands

C6_MalformedAborts ==
    \A k \in 1..Len(lines) :
        Malformed(lines[k]) => result.status = "failed" /\ k = Len(lines)

(* C7: a grammar-valid command read in an invalid context (P, O, T or a      *)
(* curve before any S; O before any P of the sketch; a curve before any O)   *)
(* fails the decode with a message carrying the line's 1-based number.       *)
Before(n, letters) == {k \in 1..(n - 1) : Parsed[lines[k]].command \in letters}

OutOfContext(n) ==
    LET c == Parsed[lines[n]].command
    IN  \/ c \in {"P", "O", "T", "L", "C", "A"} /\ Before(n, {"S"}) = {}
        \/ /\ c = "O"
           /\ Before(n, {"S"}) # {}
           /\ \A k \in Before(n, {"P"}) : k < Max(Before(n, {"S"}))
        \/ c \in {"L", "C", "A"} /\ Before(n, {"O"}) = {}

C7_StateErrorsAddressed ==
    (/\ Len(lines) >= 1
     /\ Checked[lines[Len(lines)]].ok
     /\ OutOfContext(Len(lines)))
    => result.status = "failed" /\ result.line = Len(lines)

(* C8: a line of one of the 8 commands whose parsed parameter count is not   *)
(* the command's arity (S 1, P 1, O 1, L 4, C 3, A 11, T 12, E 6) fails the  *)
(* decode with a message carrying the line's 1-based position in the input   *)
(* list; it is the last line read, and the wrapper returns the message only. *)
ClaimedArity(c) ==
    CASE c = "S" -> 1 [] c = "P" -> 1 [] c = "O" -> 1 [] c = "L" -> 4
      [] c = "C" -> 3 [] c = "A" -> 11 [] c = "T" -> 12 [] c = "E" -> 6

ArityViolation(l) ==
    /\ Parsed[l].command \in EightCommands
    /\ Len(Parsed[l].params) # ClaimedArity(Parsed[l].command)

C8_ArityFailure ==
    \A k \in 1..Len(lines) :
        ArityViolation(lines[k])
        => /\ k = Len(lines)
           /\ result = Failed("ValueError", k, "arity")

C8_Witness ==
    /\ lines = <<LineBlank, LineS1, Cmd(Marker(1), "T", <<<<"0">>, <<"0">>, <<"0">>>>)>>
    /\ result = Failed("ValueError", 3, "arity")

(* C9: in a tree that decoded successfully every referenced id resolves:     *)
(* each sequence step's entity (and its curve inside that entity), each      *)
(* extrude profile reference's sketch and profile, each loop entry's curve,  *)
(* each curve's points.                                                      *)
PointRefs(curve) ==
    CASE curve.type = "SketchLine"   -> {curve.start_point, curve.end_point}
      [] curve.type = "SketchCircle" -> {curve.center_point}
      [] curve.type = "SketchArc"    -> {curve.start_point, curve.end_point,
                                         curve.center_point}

IsSketch(key) == key \in DOMAIN entities /\ entities[key].type = "Sketch"

StepResolves(step) ==
    /\ step.entity \in DOMAIN entities
    /\ step.type = "Sketch" => step.curve \in DOMAIN entities[step.entity].curves

ProfileRefResolves(ref) ==
    IsSketch(ref.sketch) /\ ref.profile \in DOMAIN entities[ref.sketch].profiles

SketchResolves(sk) ==
    /\ \A c \in DOMAIN sk.curves : PointRefs(sk.curves[c]) \subseteq DOMAIN sk.points
    /\ \A p \in DOMAIN sk.profiles :
          \A i \in 1..Len(sk.profiles[p].loops) :
              \A j \in 1..Len(heap[sk.profiles[p].loops[i].profile_curves]) :
                  heap[sk.profiles[p].loops[i].profile_curves][j].curve
                      \in DOMAIN sk.curves

C9_ReferentialIntegrity ==
    result.status = "returned"
    => /\ \A i \in 1..Len(sequence) : StepResolves(sequence[i])
       /\ \A e \in DOMAIN entities :
             IF entities[e].type = "Sketch"
             THEN SketchResolves(entities[e])
             ELSE \A j \in 1..Len(entities[e].profiles) :
                      ProfileRefResolves(entities[e].profiles[j])

(* C10: within one decode no id is given twice: no entity is created under   *)
(* an id an earlier entity of the decode already got.                        *)
C10_IdsAssignedOnce ==
    \A i, j \in 1..Len(assigned) : i # j => assigned[i] # assigned[j]

----------------------------------------------------------------------------
(* Reading a response, for the properties below *)

\* the positions in the text of the lines the validator's loop rejects
Violations ==
    {i \in 1..Len(response_text) :
        ~IsBlank[response_text[i]] /\ ~Checked[response_text[i]].ok}

\* the line breaks an arity rule or an enum rule (O's boolean, E's operation
\* and extent kind) of the command table
ArityOrEnumViolation(l) ==
    \/ Checked[l].cause = "Expected parameters"
    \/ /\ Checked[l].cause = "Invalid type or value"
       /\ \/ Structure[l].command = "O"
          \/ Structure[l].command = "E" /\ Checked[l].parameter \in {3, 4}

IsExtrudeResponse(l) ==
    ~IsBlank[l] /\ Structure[l].matched /\ Structure[l].command = "E"

(* C4: when the validator rejects a text because of a line breaking an arity *)
(* or enum rule, the line number of its message is that line's 1-based       *)
(* position in the text.                                                     *)
C4_ValidatorLineAddressing ==
    (/\ verdict # NoVerdict
     /\ ~verdict.valid
     /\ Violations # {}
     /\ ArityOrEnumViolation(response_text[Min(Violations)]))
    => verdict.line = Min(Violations)

(* C5 as stated: a text the validator accepts holds only E lines with six    *)
(* parameters: numeric profile and sketch, operation in {New, Join, Cut},    *)
(* extent in {One, Two, Symmetric}, and d1, d2 numbers greater than 0.       *)
C5_DistancesPositive ==
    \A k \in 1..Len(response_text) :
        (verdict.valid /\ IsExtrudeResponse(response_text[k]))
        => LET p == Structure[response_text[k]].params
           IN  /\ Len(p) = 6
               /\ IsNumber(p[1]) /\ IsNumber(p[2])
               /\ IsOperationToken(p[3])
               /\ IsExtentToken(p[4])
               /\ IsNumber(p[5]) /\ Positive(p[5])
               /\ IsNumber(p[6]) /\ Positive(p[6])

\* the E rule the code applies
ExtrudeAcceptable(p) ==
    /\ Len(p) = 6
    /\ IsNumber(p[1]) /\ Positive(p[1])
    /\ IsNumber(p[2]) /\ Positive(p[2])
    /\ IsOperationToken(p[3])
    /\ IsExtentToken(p[4])
    /\ IsNumber(p[5])
    /\ IsNumber(p[6])

(* C5, amended: the validator rejects every E line whose 1st or 2nd          *)
(* parameter (profile id, sketch id) is not a number greater than 0, whose   *)
(* operation is not in {New, Join, Cut}, whose extent is not in {One, Two,   *)
(* Symmetric} or whose d1 or d2 is not a number; d1 and d2 need not be       *)
(* positive: a text of E lines passing these checks is accepted.             *)
C5_ExtrudeRule ==
    verdict # NoVerdict
    => /\ \A k \in 1..Len(response_text) :
             (verdict.valid /\ IsExtrudeResponse(response_text[k]))
             => ExtrudeAcceptable(Structure[response_text[k]].params)
       /\ (/\ response_text # <<>>
           /\ \A k \in 1..Len(response_text) :
                 /\ IsExtrudeResponse(response_text[k])
                 /\ ExtrudeAcceptable(Structure[response_text[k]].params))
          => verdict.valid

C5_Witness ==
    /\ response_text = <<Cmd(<<>>, "E", <<<<"1">>, <<"1">>, <<"N", "e", "w">>, <<"O", "n", "e">>, <<"-", "5">>, <<"0">>>>)>>
    /\ verdict.valid

----------------------------------------------------------------------------
(* C1: decoding the text the encoder emits for a canonical tree (no          *)
(* duplicate point coordinates, no duplicate curve signatures in a sketch)   *)
(* succeeds and returns a tree equivalent to it: same entities, same         *)
(* sequence, same cross references.                                          *)
C1_RoundTrip ==
    (scenario = "roundtrip" /\ result.status # "running")
    => result.status = "returned" /\ Decoded = tree

----------------------------------------------------------------------------
(* Counting the points of a tree, for the property below *)

Sketches(t) == {k \in DOMAIN t.entities : t.entities[k].type = "Sketch"}

PointsOf(t) ==
    UNION {{<<k, p>> : p \in DOMAIN t.entities[k].points} : k \in Sketches(t)}

PointCount(t) == Cardinality(PointsOf(t))

CoordOf(t, kp) == t.entities[kp[1]].points[kp[2]]

\* the x and y the decoder reads back from the text of a point
Rendered(pt) == <<FloatOf(format_value(pt.x)), FloatOf(format_value(pt.y))>>

NoSharedCoordinates(t) ==
    \A a, b \in PointsOf(t) : a # b => CoordOf(t, a) # CoordOf(t, b)

NoSharedRendering(t) ==
    \A a, b \in PointsOf(t) :
        (a # b /\ a[1] = b[1]) => Rendered(CoordOf(t, a)) # Rendered(CoordOf(t, b))

-----------------------------------------------------------------------------
(* C12 *)

\* the kinds the document format supports
SupportedCurveKinds == {"SketchLine", "SketchCircle", "SketchArc"}

SupportedOperationKinds ==
    {"NewBodyFeatureOperation", "JoinFeatureOperation", "CutFeatureOperation"}

SupportedExtentKinds ==
    {"OneSideFeatureExtentType", "TwoSidesFeatureExtentType",
     "SymmetricFeatureExtentType"}

UsesUnsupportedKind(doc) ==
    \E i \in 1..Len(doc.entities) :
        LET e == doc.entities[i][2]
        IN  \/ /\ e.type = "Sketch"
               /\ \E c \in 1..Len(e.curves) : e.curves[c][2].type \notin SupportedCurveKinds
            \/ /\ e.type = "ExtrudeFeature"
               /\ \/ e.extent_type \notin SupportedExtentKinds
                  \/ e.extent_one.type # "DistanceExtentDefinition"
                  \/ e.operation \notin SupportedOperationKinds

\* C12: a document holding a curve kind, an extent kind or an operation kind
\* outside the supported set is skipped whole: prune_json_data writes nothing
\* for it.
C12_UnsupportedRejected ==
    (scenario = "normalize" /\ written # NotRun /\ UsesUnsupportedKind(input_json))
        => written = Skipped

-----------------------------------------------------------------------------
(* C13 *)

\* every identifier a document holds: the keys of its entities, points, curves
\* and profiles, and the references of its curves, loops, extrusions and steps
IdsOfSketch(e) ==
    {e.points[i][1] : i \in 1..Len(e.points)}
        \cup {e.curves[i][1] : i \in 1..Len(e.curves)}
        \cup {e.profiles[i][1] : i \in 1..Len(e.profiles)}
        \cup UNION {{e.curves[i][2][f] :
                        f \in DOMAIN e.curves[i][2] \cap
                              {"start_point", "end_point", "center_point"}} :
                    i \in 1..Len(e.curves)}
        \cup UNION {UNION {{e.profiles[i][2].loops[l].profile_curves[c].curve :
                               c \in 1..Len(e.profiles[i][2].loops[l].profile_curves)} :
                           l \in 1..Len(e.profiles[i][2].loops)} :
                    i \in 1..Len(e.profiles)}

IdsOfExtrude(e) ==
    UNION {{e.profiles[i].profile, e.profiles[i].sketch} : i \in 1..Len(e.profiles)}

IdsOfStep(step) ==
    {step.entity} \cup (IF "curve" \in DOMAIN step THEN {step.curve} ELSE {})

IdsIn(doc) ==
    {doc.entities[i][1] : i \in 1..Len(doc.entities)}
        \cup UNION {IF doc.entities[i][2].type = "Sketch"
                    THEN IdsOfSketch(doc.entities[i][2])
                    ELSE IdsOfExtrude(doc.entities[i][2]) :
                    i \in 1..Len(doc.entities)}
        \cup UNION {IdsOfStep(doc.sequence[i]) : i \in 1..Len(doc.sequence)}

\* C13: after rename_ids no identifier of the document before renaming is left
\* anywhere in the document written out: not as a key of an entity, point,
\* curve or profile, not in a curve's point references, a loop's curve
\* references, an extrusion's profile references, nor in the sequence.
C13_ExhaustiveRenaming ==
    (scenario = "normalize" /\ written.state = "saved")
        => /\ IdsIn(written.file) \cap IdsIn(input_json) = {}
           /\ \A id \in IdsIn(written.file) : id[1] # "uuid"

\* a written document of two sketches, a circle's centre among its references,
\* the second sketch reusing a point id of the first
C13_Witness ==
    /\ scenario = "normalize"
    /\ written.state = "saved"
    /\ Len(written.file.entities) = 3
    /\ Len(written.file.sequence) = 4
    /\ \E i, j \in 1..Len(input_json.entities) :
          /\ i < j
          /\ input_json.entities[i][2].type = "Sketch"
          /\ input_json.entities[j][2].type = "Sketch"
          /\ input_json.entities[i][2].points[1][1] = input_json.entities[j][2].points[1][1]

-----------------------------------------------------------------------------
(* C14 *)

\* C14: the score evaluate_response returns is 0.0 exactly when the validator
\* rejects the text or the decoder fails on it, 1.0 exactly when the kernel
\* gives a solid that is not null, and 0.5 in every other case; an exception
\* of the kernel ends in a score, never in an exception of evaluate_response.
C14_ScoreMapping ==
    (scenario = "evaluate" /\ eval_result # NoEvaluation)
        => /\ eval_result.score \in {0, 5, 10}
           /\ eval_result.score = 0 <=> (~verdict.valid \/ result.status = "failed")
           /\ eval_result.score = 10 <=>
                 (verdict.valid /\ result.status = "returned" /\ eval_result.kernel = "solid")
           /\ eval_result.kernel = "raises" => eval_result.score = 5

\* the kernel raised on the second response, after a first one rebuilt to a solid
C14_Witness ==
    /\ scenario = "evaluate"
    /\ Len(part_evaluations) = 1
    /\ part_evaluations[1].score = 10
    /\ verdict.valid
    /\ result.status = "returned"
    /\ eval_result.kernel = "raises"
    /\ eval_result.score = 5

-----------------------------------------------------------------------------
(* C17 *)

BoxOf(record) == IF "bbox_sim" \in DOMAIN record THEN record.bbox_sim ELSE 0

\* (score, box similarity, text similarity) of r is at most that of b
AtMost(r, b) ==
    \/ r.score < b.score
    \/ /\ r.score = b.score
       /\ \/ BoxOf(r) < BoxOf(b)
          \/ BoxOf(r) = BoxOf(b) /\ r.similarity <= b.similarity

\* C17: the response kept for a part is one of its evaluated responses, and
\* its (score, bounding-box similarity, text similarity) is lexicographically
\* the greatest among them.
C17_BestIsLexicographicMax ==
    (scenario = "evaluate" /\ best_response # NoRecord)
        => /\ \E i \in 1..Len(part_evaluations) : part_evaluations[i] = best_response
           /\ \A i \in 1..Len(part_evaluations) : AtMost(part_evaluations[i], best_response)

\* the second of three responses is kept: the first is more similar to the
\* ground truth but scores less, the third scores the same and is more similar
\* but its box is further off
C17_Witness ==
    /\ scenario = "evaluate"
    /\ Len(part_evaluations) = 3
    /\ best_response = part_evaluations[2]
    /\ part_evaluations[1].score < best_response.score
    /\ part_evaluations[1].similarity > best_response.similarity
    /\ part_evaluations[3].score = best_response.score
    /\ BoxOf(part_evaluations[3]) < BoxOf(best_response)
    /\ part_evaluations[3].similarity > best_response.similarity

-----------------------------------------------------------------------------
(* C20 *)

\* C20: what the decoder returns for a text does not depend on the texts
\* decoded before it: two responses of a part with the same text have the same
\* decoded document, or both have none.
C20_Stateless ==
    scenario = "evaluate"
        => \A i, j \in 1..Len(part_evaluations) :
              part_evaluations[i].response_text = part_evaluations[j].response_text
                  => part_evaluations[i].decoded_json = part_evaluations[j].decoded_json

\* the rectangle decoded first and again after another decoded response
C20_Witness ==
    /\ scenario = "evaluate"
    /\ Len(part_evaluations) = 3
    /\ part_evaluations[1].response_text = RectangleText
    /\ part_evaluations[3].response_text = RectangleText
    /\ part_evaluations[2].response_text = <<LineS1, LineE11>>
    /\ part_evaluations[2].decoded_json # None
    /\ part_evaluations[1].decoded_json # None
    /\ part_evaluations[3].decoded_json = part_evaluations[1].decoded_json

-----------------------------------------------------------------------------
(* C15 *)

\* lines well formed by the grammar: a command of one of the eight letters
\* with its arity and parameter kinds, bare, indented, marked, or both
GrammarLines == VariantLines

\* C15: validate_response_format accepts every text (of one line at least)
\* made only of well-formed lines of the commands S, P, O, L, C, A, T, E,
\* whether or not the lines carry indentation and "-" markers.
C15_WellFormedAccepted ==
    (/\ scenario = "response"
     /\ verdict # NoVerdict
     /\ response_text # <<>>
     /\ \A i \in 1..Len(response_text) : response_text[i] \in GrammarLines)
        => verdict.valid

\* an accepted text of a marked, indented line and a bare one
C15_Witness ==
    /\ scenario = "response"
    /\ verdict.valid
    /\ Len(response_text) = 2
    /\ response_text[1] = Marker(2) \o Cmd(<<>>, "O", <<<<"f", "a", "l", "s", "e">>>>)
    /\ response_text[2] = <<"C", "(", "0", ",", "0", ",", "5", ")">>

-----------------------------------------------------------------------------
(* C16 *)

\* the validator rejects the line taken alone
Violating(l) == ~IsBlank[l] /\ ~validate_response_format(<<l>>).valid

\* C16: when a text has a violating line, the verdict and the message are
\* those of the earliest such line (the message counting the lines that are
\* not blank), and they are the same whatever line follows it.
C16_ShortCircuit ==
    (/\ scenario = "response"
     /\ verdict # NoVerdict
     /\ \E i \in 1..Len(response_text) : Violating(response_text[i]))
        => LET first == Min({i \in 1..Len(response_text) : Violating(response_text[i])})
               upto  == SubSeq(response_text, 1, first)
           IN  /\ ~verdict.valid
               /\ verdict.cause = validate_response_format(<<response_text[first]>>).cause
               /\ verdict.line = Cardinality({i \in 1..first : ~IsBlank[response_text[i]]})
               /\ verdict = validate_response_format(upto)
               /\ \A l \in ResponseLines :
                     validate_response_format(Append(upto, l)) = verdict

\* two violating lines of different causes: the verdict is the first one's
C16_Witness ==
    /\ scenario = "response"
    /\ verdict # NoVerdict
    /\ Len(response_text) = 2
    /\ Violating(response_text[1])
    /\ Violating(response_text[2])
    /\ validate_response_format(<<response_text[1]>>).cause
          # validate_response_format(<<response_text[2]>>).cause
    /\ verdict.line = 1
    /\ verdict.cause = validate_response_format(<<response_text[1]>>).cause

-----------------------------------------------------------------------------
(* C18 *)

Five == Num(FALSE, 5, <<>>)

Ten == Num(FALSE, 10, <<>>)

\* C18: the decoder, given the nine lines of the rectangle (S (1), P (1),
\* O (true), four L lines through (0,0), (10,0), (10,5), (0,5), the identity
\* T and E (1, 1, New, One, 5, 0)), returns a document of exactly one Sketch
\* with 4 points, 4 lines, 1 profile and 1 outer loop of 4 curves, one
\* ExtrudeFeature (New, One, distance 5), and a sequence of 5 steps: the 4
\* curves in order, then the extrusion.
C18_RectangleDecoded ==
    (scenario = "evaluate" /\ text = RectangleText /\ Len(lines) = Len(text)
        /\ result.status # "running")
        => /\ result.status = "returned"
           /\ DOMAIN Decoded.entities = {SketchKey(1), ExtrudeKey(1)}
           /\ LET sketch  == Decoded.entities[SketchKey(1)]
                  extrude == Decoded.entities[ExtrudeKey(1)]
                  steps   == Decoded.sequence
              IN  /\ sketch.type = "Sketch"
                  /\ Cardinality(DOMAIN sketch.points) = 4
                  /\ {<<sketch.points[p].x, sketch.points[p].y>> : p \in DOMAIN sketch.points}
                        = {<<Zero, Zero>>, <<Ten, Zero>>, <<Ten, Five>>, <<Zero, Five>>}
                  /\ Cardinality(DOMAIN sketch.curves) = 4
                  /\ \A c \in DOMAIN sketch.curves : sketch.curves[c].type = "SketchLine"
                  /\ DOMAIN sketch.profiles = {ProfileKey(1)}
                  /\ Len(sketch.profiles[ProfileKey(1)].loops) = 1
                  /\ sketch.profiles[ProfileKey(1)].loops[1].is_outer
                  /\ Len(sketch.profiles[ProfileKey(1)].loops[1].profile_curves) = 4
                  /\ {sketch.profiles[ProfileKey(1)].loops[1].profile_curves[i].curve : i \in 1..4}
                        = DOMAIN sketch.curves
                  /\ extrude.type = "ExtrudeFeature"
                  /\ extrude.operation = "NewBodyFeatureOperation"
                  /\ extrude.extent_type = "OneSideFeatureExtentType"
                  /\ extrude.extent_one.distance.value = Five
                  /\ extrude.profiles = <<[profile |-> ProfileKey(1), sketch |-> SketchKey(1)]>>
                  /\ Len(steps) = 5
                  /\ \A i \in 1..4 :
                        /\ steps[i].type = "Sketch"
                        /\ steps[i].entity = SketchKey(1)
                        /\ steps[i].curve =
                              sketch.profiles[ProfileKey(1)].loops[1].profile_curves[i].curve
                  /\ steps[5].type = "ExtrudeFeature"
                  /\ steps[5].entity = ExtrudeKey(1)
                  /\ \A i \in 1..5 : steps[i].index = i - 1

\* the decoder has returned from the rectangle's nine lines
C18_Witness ==
    /\ scenario = "evaluate"
    /\ text = RectangleText
    /\ Len(lines) = 9
    /\ result.status = "returned"
    /\ Len(sequence) = 5

-----------------------------------------------------------------------------
(* C19 *)

\* the magnitude of v in units of 1e-8, rounded down, and whether v has
\* digits beyond the eighth
Units8(v) ==
    v.ip * 100000000
        + DigitsToNat(SubSeq(v.fr \o <<"0", "0", "0", "0", "0", "0", "0", "0">>, 1, 8))

Beyond8(v) == \E i \in 9..Len(v.fr) : v.fr[i] # "0"

\* |v - w| <= 1e-8 for v and a w of at most eight fraction digits, of one sign
Within8(v, w) ==
    /\ w.neg = v.neg \/ (w.ip = 0 /\ w.fr = <<>>)
    /\ \/ Units8(w) - Units8(v) \in {0, 1}
       \/ Units8(v) - Units8(w) = 1 /\ ~Beyond8(v)

BelowNano(v) == v.ip = 0 /\ \A i \in 1..Len(v.fr) : i <= 9 => v.fr[i] = "0"

\* the number the decoder reads from the rendered string
ParsedBack == parse_params(Cmd(<<>>, "S", <<rendered>>))

\* C19: the string format_value gives for a finite value is read back by the
\* decoder as a number within 1e-8 of the value; a value of magnitude below
\* 1e-9 gives "0"; the string has no zero at the end of a fraction and does
\* not end in a decimal point.
C19_NumericIdempotence ==
    (scenario = "format" /\ rendered # NotRendered)
        => /\ Len(ParsedBack) = 1
           /\ ParsedBack[1].k = "float"
           /\ Len(ParsedBack[1].fr) <= 8
           /\ Within8(number, ParsedBack[1])
           /\ BelowNano(number) => rendered = <<"0">>
           /\ rendered[Len(rendered)] # "."
           /\ (\E i \in 1..Len(rendered) : rendered[i] = ".") => rendered[Len(rendered)] # "0"

\* 9.999999999 rendered as "10"
C19_Witness ==
    /\ scenario = "format"
    /\ number = Num(FALSE, 9, Nines(9))
    /\ rendered = <<"1", "0">>

-----------------------------------------------------------------------------
(* C21 *)

\* the Point3D ids among the ids issued so far, in order of issue
IssuedPoints == SelectSeq(assigned, LAMBDA k : k[1] = "Point3D")

\* the coordinate triple of a stored point
Coordinates(point) == <<point.x, point.y, point.z>>

\* C21: point and curve deduplication is scoped to the sketch, ids are global
\* to the document.  The point ids issued are Point3D1, Point3D2, ... without
\* gaps across sketches; no point id belongs to two sketches (a coordinate
\* used in two sketches has one point id in each); inside one sketch a
\* coordinate has exactly one point id however many L, C and A lines use it;
\* and the dedup indexes hold exactly the points and curves of the sketch
\* opened by the latest S line (they are empty right after it).
C21_SketchScopedDedup ==
    /\ \A i \in 1..Len(IssuedPoints) : IssuedPoints[i] = <<"Point3D", i>>
    /\ point_counter = Len(IssuedPoints) + 1
    /\ \A k \in DOMAIN entities :
          entities[k].type = "Sketch"
          => /\ \A p, q \in DOMAIN entities[k].points :
                   Coordinates(entities[k].points[p]) = Coordinates(entities[k].points[q])
                   => p = q
             /\ \A j \in DOMAIN entities :
                   (j # k /\ entities[j].type = "Sketch")
                   => DOMAIN entities[j].points \cap DOMAIN entities[k].points = {}
    /\ current_sketch_key = NoKey
       => point_tracker = EmptyMap /\ curve_tracker = EmptyMap
    /\ current_sketch_key # NoKey
       => LET sketch == entities[current_sketch_key]
          IN  /\ DOMAIN point_tracker
                    = {Coordinates(sketch.points[p]) : p \in DOMAIN sketch.points}
              /\ \A c \in DOMAIN point_tracker :
                    /\ point_tracker[c] \in DOMAIN sketch.points
                    /\ Coordinates(sketch.points[point_tracker[c]]) = c
              /\ {curve_tracker[g] : g \in DOMAIN curve_tracker}
                    = DOMAIN sketch.curves

\* two sketches drawn over the same two coordinates: the first uses them in
\* two lines and holds Point3D1 and Point3D2, the second holds Point3D3 and
\* Point3D4
C21_Witness ==
    /\ lines = <<LineS1, LineP1, LineO, LineL, LineLSwapped, LineS2, LineL>>
    /\ result.status = "running"
    /\ DOMAIN entities[SketchKey(1)].points = {<<"Point3D", 1>>, <<"Point3D", 2>>}
    /\ DOMAIN entities[SketchKey(2)].points = {<<"Point3D", 3>>, <<"Point3D", 4>>}
    /\ {Coordinates(entities[SketchKey(1)].points[p]) : p \in DOMAIN entities[SketchKey(1)].points}
          = {Coordinates(entities[SketchKey(2)].points[p]) : p \in DOMAIN entities[SketchKey(2)].points}
    /\ point_counter = 5

-----------------------------------------------------------------------------
(* C22 *)

\* two curves of one sketch that the stated key does not tell apart
SameCurveKey(c, d) ==
    /\ c.type = d.type
    /\ IF c.type = "SketchCircle"
       THEN c.center_point = d.center_point /\ c.radius = d.radius
       ELSE PointRefs(c) = PointRefs(d)

\* C22: within one sketch a line or an arc is identified by its type and the
\* order-insensitive set of its endpoint and center point ids, and a circle
\* by its type, center point and radius: no sketch holds two curve entities
\* with the same key, so a line or arc whose start and end are swapped
\* relative to an earlier one makes no new curve.
C22_CurveDedupKey ==
    \A k \in DOMAIN entities :
        entities[k].type = "Sketch"
        => \A c, d \in DOMAIN entities[k].curves :
              SameCurveKey(entities[k].curves[c], entities[k].curves[d]) => c = d

-----------------------------------------------------------------------------
(* C23 *)

\* the curve and ExtrudeFeature ids among the ids issued so far, in order
CreatedSteps ==
    SelectSeq(assigned,
              LAMBDA k : k[1] \in {"SketchLine", "SketchCircle", "SketchArc", "Extrude"})

\* C23: the sequence holds exactly one step per curve ever created and one
\* per ExtrudeFeature ever created, in creation order, each step's index
\* being its position counted from 0.  An L, C or A line that resolves to an
\* existing curve, and an E line merged into the feature before it, add no
\* step.
C23_StepPerCreation ==
    /\ Len(sequence) = Len(CreatedSteps)
    /\ Len(sequence) = (line_counter - 1) + (circle_counter - 1)
                          + (arc_counter - 1) + (extrude_counter - 1)
    /\ sequence_index = Len(sequence)
    /\ \A i \in 1..Len(sequence) :
          /\ sequence[i].index = i - 1
          /\ IF CreatedSteps[i][1] = "Extrude"
             THEN /\ sequence[i].type = "ExtrudeFeature"
                  /\ sequence[i].entity = CreatedSteps[i]
             ELSE /\ sequence[i].type = "Sketch"
                  /\ sequence[i].curve = CreatedSteps[i]

\* a line drawn twice (the second time reversed) and an extrusion of two
\* merged E lines: two loop entries and two profile references, two steps
C23_Witness ==
    /\ lines = <<LineS1, LineP1, LineO, LineL, LineLSwapped, LineE11, LineE11>>
    /\ result.status = "running"
    /\ Len(heap[1]) = 2
    /\ Len(entities[ExtrudeKey(1)].profiles) = 2
    /\ Len(sequence) = 2
    /\ sequence[1].curve = <<"SketchLine", 1>>
    /\ sequence[2].entity = ExtrudeKey(1)

-----------------------------------------------------------------------------
(* C27 *)

\* the curve ids the loops of sketch k refer to
LoopCurves(k) ==
    LET profiles == entities[k].profiles
    IN  UNION {UNION {{heap[profiles[p].loops[i].profile_curves][j].curve :
                          j \in 1..Len(heap[profiles[p].loops[i].profile_curves])} :
                      i \in 1..Len(profiles[p].loops)} :
               p \in DOMAIN profiles}

\* C27: curves stay inside their sketch.  Every curve reference in a loop of
\* a sketch names a curve of that same sketch's curves map, and the loop an
\* L, C or A line has just added to is a loop of the current profile of the
\* current sketch.
C27_CurvesInsideSketch ==
    /\ \A k \in DOMAIN entities :
          entities[k].type = "Sketch" => LoopCurves(k) \subseteq DOMAIN entities[k].curves
    /\ (/\ lines # <<>>
        /\ result.status = "running"
        /\ Parsed[lines[Len(lines)]].command \in {"L", "C", "A"})
       => /\ current_profile_key \in DOMAIN entities[current_sketch_key].profiles
          /\ \E i \in 1..Len(entities[current_sketch_key].profiles[current_profile_key].loops) :
                entities[current_sketch_key].profiles[current_profile_key].loops[i].profile_curves
                    = current_loop

-----------------------------------------------------------------------------
(* C24 *)

\* the keys of a document in the order they are written: each entity's key,
\* and for a sketch the keys of its points, curves and profiles
KeysOfEntity(pair) ==
    <<pair[1]>> \o
        (IF pair[2].type # "Sketch" THEN <<>>
         ELSE [j \in 1..Len(pair[2].points) |-> pair[2].points[j][1]]
              \o [j \in 1..Len(pair[2].curves) |-> pair[2].curves[j][1]]
              \o [j \in 1..Len(pair[2].profiles) |-> pair[2].profiles[j][1]])

KeysOf(doc) == Concat([i \in 1..Len(doc.entities) |-> KeysOfEntity(doc.entities[i])])

NameTypes ==
    {"Sketch", "Extrude", "Point3D", "SketchLine", "SketchCircle", "SketchArc", "Profile"}

\* C24: in the document the normalizer writes, the names of each type are
\* <Type>1 .. <Type>N in document order, from one counter per type for the
\* whole document, so no two points (or curves, or profiles) share a name,
\* within a sketch or across sketches.
C24_GlobalNaming ==
    (scenario = "normalize" /\ written.state = "saved")
        => LET keys == KeysOf(written.file)
           IN  /\ \A n \in 1..Len(keys) : keys[n][1] \in NameTypes
               /\ \A type \in NameTypes :
                     LET named == SelectSeq(keys, LAMBDA k : k[1] = type)
                     IN  \A n \in 1..Len(named) : named[n] = <<type, n>>

\* a written document whose second sketch holds Point3D3, SketchCircle2 and
\* Profile2 after the two points, the circle and the profile of the first
C24_Witness ==
    /\ scenario = "normalize"
    /\ written.state = "saved"
    /\ Len(written.file.entities) = 3
    /\ written.file.entities[1][1] = <<"Sketch", 1>>
    /\ written.file.entities[2][1] = <<"Sketch", 2>>
    /\ Len(written.file.entities[1][2].points) = 2
    /\ written.file.entities[2][2].points[1][1] = <<"Point3D", 3>>
    /\ written.file.entities[2][2].curves[1][1] = <<"SketchCircle", 2>>
    /\ written.file.entities[2][2].profiles[1][1] = <<"Profile", 2>>

-----------------------------------------------------------------------------
(* C28 *)

\* the names a written sketch gives its points and curves
PointNames(e) == {e.points[j][1] : j \in 1..Len(e.points)}

CurveNames(e) == {e.curves[j][1] : j \in 1..Len(e.curves)}

\* C28: renaming is consistent per sketch, also when two sketches use the
\* same original id for different things.  In the written document every
\* curve's point references name points of the curve's own sketch and every
\* loop's curve references name curves of the loop's own sketch.
C28_ConsistentPerSketch ==
    (scenario = "normalize" /\ written.state = "saved")
        => \A i \in 1..Len(written.file.entities) :
              LET e == written.file.entities[i][2]
              IN  e.type = "Sketch"
                  => /\ \A j \in 1..Len(e.curves) :
                           \A f \in DOMAIN e.curves[j][2] \cap PointRefKeys :
                              e.curves[j][2][f] \in PointNames(e)
                     /\ \A j \in 1..Len(e.profiles) :
                           \A l \in 1..Len(e.profiles[j][2].loops) :
                              \A c \in 1..Len(e.profiles[j][2].loops[l].profile_curves) :
                                 e.profiles[j][2].loops[l].profile_curves[c].curve
                                    \in CurveNames(e)

-----------------------------------------------------------------------------
(* C25 *)

\* the entities a sequence refers to, each once, in the order of the first
\* step that names it
FirstReferences(data) ==
    SelectSeq([i \in 1..Len(data.sequence) |-> <<i, data.sequence[i].entity>>],
              LAMBDA p : \A j \in 1..(p[1] - 1) : data.sequence[j].entity # p[2])

\* the block of lines of one entity
BlockOf(data, key) ==
    IF data.entities[key].type = "Sketch"
    THEN process_sketch(data.entities[key], IdDigits(key))
    ELSE process_extrude(data.entities[key])

\* the lines of a text that open a sketch block
SketchHeads(lines_of_text) ==
    {i \in 1..Len(lines_of_text) : Parsed[lines_of_text[i]].command = "S"}

\* C25: whatever number of sequence steps refer to a Sketch or an
\* ExtrudeFeature, the encoder emits its block exactly once, at the first
\* step that refers to it: the text is the blocks of the entities referred
\* to, one each, in the order of their first reference, and it holds as many
\* S lines as the sequence names distinct sketches.
C25_NoReemission ==
    (scenario = "roundtrip" /\ text # <<>>)
        => LET firsts == FirstReferences(tree)
           IN  /\ text = Concat([n \in 1..Len(firsts) |-> BlockOf(tree, firsts[n][2])])
               /\ Cardinality(SketchHeads(text))
                     = Cardinality({tree.sequence[i].entity : i \in 1..Len(tree.sequence)}
                                      \cap {k \in DOMAIN tree.entities :
                                               tree.entities[k].type = "Sketch"})

\* a text of one S line emitted for a sketch that four steps refer to
C25_Witness ==
    /\ scenario = "roundtrip"
    /\ text # <<>>
    /\ Cardinality({i \in 1..Len(tree.sequence) : tree.sequence[i].entity = SketchKey(1)}) = 4
    /\ Cardinality(SketchHeads(text)) = 1

-----------------------------------------------------------------------------
(* C26 *)

\* the profile references of the extrusions of a tree, each with its
\* feature, in the order the sequence first names the features
ExtrudedProfiles(data) ==
    LET firsts == FirstReferences(data)
    IN  Concat([n \in 1..Len(firsts) |->
                   LET e == data.entities[firsts[n][2]]
                   IN  IF e.type # "ExtrudeFeature" THEN <<>>
                       ELSE [p \in 1..Len(e.profiles) |->
                                [ref |-> e.profiles[p], feature |-> e]]])

\* C26: an ExtrudeFeature of N profile references is emitted as N E lines in
\* the order of the references; the lines of one feature carry the same
\* operation, extent kind, d1 and d2 (d2 is 0 for a feature with no second
\* extent), each with the number of its own profile and of its own sketch.
C26_LinePerProfile ==
    (scenario = "roundtrip" /\ text # <<>>)
        => LET emitted  == SelectSeq(text, LAMBDA l : Parsed[l].command = "E")
               expected == ExtrudedProfiles(tree)
           IN  /\ Len(emitted) = Len(expected)
               /\ \A n \in 1..Len(emitted) :
                     LET p == Parsed[emitted[n]].params
                         e == expected[n].feature
                     IN  /\ Len(p) = 6
                         /\ ExtrudeRef(emitted[n]) = expected[n].ref
                         /\ operation_map_rev(p[3]) = e.operation
                         /\ extent_type_map_rev(p[4]) = e.extent_type
                         /\ p[5] = FloatOf(format_value(e.extent_one.distance.value))
                         /\ p[6] = IF "extent_two" \in DOMAIN e
                                   THEN FloatOf(format_value(e.extent_two.distance.value))
                                   ELSE Zero

\* the text of the tree whose one extrusion takes Profile1 of Sketch1 and
\* Profile2 of Sketch2: it ends with the two E lines of that feature
C26_Witness ==
    /\ scenario = "roundtrip"
    /\ tree = TreeJointExtrusion
    /\ Len(text) >= 2
    /\ ExtrudeRef(text[Len(text) - 1]) = ProfileRef(1, 1)
    /\ ExtrudeRef(text[Len(text)]) = ProfileRef(2, 2)
    /\ ExtrudeFields(text[Len(text) - 1])[2] = ExtrudeFields(text[Len(text)])[2]

-----------------------------------------------------------------------------
(* C29 *)

\* the lines of a text the validator's loop goes through
NonBlank(txt) == SelectSeq(txt, LAMBDA l : Strip(l) # <<>>)

\* C29: the text the encoder emits for a canonical tree (a sequence that is
\* not empty, operations and extent kinds of the supported sets) is accepted
\* by the validator: the text has a line, and every S, P, O, L, C, A, T and E
\* line of it matches the base structure and satisfies the rule of its
\* command, the E line of a one-sided extrusion with d2 rendered as 0
\* included.
C29_EncodedTextValid ==
    (scenario = "roundtrip" /\ text # <<>>)
        => /\ NonBlank(text) # <<>>
           /\ \A i \in 1..Len(text) :
                 /\ Strip(text[i]) # <<>>
                 /\ CheckLine(text[i]) = Accepted

\* the text of the sketch of two profiles extruded on one side: it holds a
\* line of each of S, P, O, L, C, T and ends with E (.., 5, 0)
C29_Witness ==
    /\ scenario = "roundtrip"
    /\ text # <<>>
    /\ {Parsed[text[i]].command : i \in 1..Len(text)} = {"S", "P", "O", "L", "C", "T", "E"}
    /\ ExtrudeFields(text[Len(text)])[3] = Str(<<"O", "n", "e">>)
    /\ ExtrudeFields(text[Len(text)])[5] = Zero
    /\ CheckLine(text[Len(text)]) = Accepted

-----------------------------------------------------------------------------
(* C30 *)

\* C30: the validator and the decoder agree on the tokens of every line of
\* an accepted text: parse_params yields as many parameters as the validator
\* read, and a parameter is a number to the one exactly when it is a number
\* to the other, so that no parameter validated as a number is stored by the
\* decoder as a string or makes the line fail.
C30_TokensAgree ==
    (verdict # NoVerdict /\ verdict.valid)
        => \A k \in 1..Len(response_text) :
              ~IsBlank[response_text[k]]
              => LET validated == Structure[response_text[k]].params
                     decoded   == parse_params(Strip(response_text[k]))
                 IN  /\ Len(decoded) = Len(validated)
                     /\ \A i \in 1..Len(validated) :
                           IsNumber(validated[i]) <=> decoded[i].k # "str"

====
